---- MODULE Spec2Model ----
(***************************************************************************)
(* Model of the interview-generation coordinator                           *)
(* (core.agents/interview_agent/agents/enhanced_coordinator.py) and of the *)
(* agents it drives: question generator, answer-tips generator, quality    *)
(* assurance and formatter.                                                *)
(*                                                                         *)
(* Conventions                                                             *)
(*  - a text is a sequence of tokens; f-string concatenation is \o;        *)
(*  - a Python str / list value is a tagged record (PyStr / PyList): what  *)
(*    the code iterates over and whether the items have .get() decides     *)
(*    whether a loop body raises AttributeError;                           *)
(*  - a Python dict is a TLA+ record, {} is EmptyDict, d.get(k, default)   *)
(*    is a DOMAIN test;                                                    *)
(*  - scores are integers in hundredths (70 is 0.70);                      *)
(*  - a call that may raise returns Return(v) or Raise(msg).               *)
(***************************************************************************)
EXTENDS Integers, Sequences, FiniteSets, TLC

VARIABLES
    pc,                   \* position of generate_interview_content_async
    request,              \* the EnhancedInterviewRequest of the current call
    svc,                  \* what the text-generation service answers at each call site
    performance_metrics,  \* self.performance_metrics
    analysis_result,      \* result of _phase1_document_analysis
    tasks,                \* parallel phase: task name -> state of the asyncio task
    results,              \* parallel phase: task name -> what the task returned / raised
    generation_result,    \* the ParallelProcessingResult handed to phase 3
    quality_data,         \* the quality payload handed to the formatter
    final_response,       \* what _phase3_finalization returned
    exc,                  \* the exception unwinding to the top-level handler
    package,              \* the EnhancedInterviewResponse returned to the caller
    trace,                \* history: component invocations of the current call, in order
    prev,                 \* history: request and package content of the previous call
    \* InterviewAgent.batch_generate_async: several calls on one coordinator
    b_state,              \* position of batch_generate_async
    b_requests,           \* its argument: the list of requests
    b_svc,                \* what the service answers to the calls made for each request
    b_pc,                 \* position of each request's coroutine
    b_results,            \* per request: task name -> what the task returned / raised
    b_packages,           \* per request: what its coroutine returned
    b_returned,           \* processed_results, the list handed back to the caller
    \* a component called on its own
    call,                 \* the operation applied and its arguments
    ret,                  \* what it returned
    \* the graph orchestration variant
    graph,                \* the graph builder.build() returned
    graph_state           \* the GraphState of the running graph: status, results, nodes

coordVars == <<pc, request, svc, analysis_result, tasks, results,
               generation_result, quality_data, final_response, exc, package, trace, prev>>

batchVars == <<b_state, b_requests, b_svc, b_pc, b_results, b_packages, b_returned>>

unitVars == <<call, ret>>

graphVars == <<graph, graph_state>>

vars == <<coordVars, performance_metrics, batchVars, unitVars, graphVars>>

----------------------------------------------------------------------------
(* Bounds *)

\* longest text the service returns for the question-generation prompt
MaxTextLen == 1

\* most requests handed to one batch_generate_async call
MaxBatch == 2

\* most questions (and most quality metrics of a kind) handed to a component
MaxQuestions == 3

\* longest role string, in characters, handed to an entry point
MaxRoleLen == 4

\* most blocks in a reply of the service that is parsed into questions
MaxBlocks == 11

----------------------------------------------------------------------------
(* Values *)

None == [none |-> TRUE]
EmptyDict == [k \in {} |-> 0]

PyStr(t) == [kind |-> "str", text |-> t, items |-> <<>>]
PyList(xs) == [kind |-> "list", text |-> <<>>, items |-> xs]

\* number of iterations of `for x in v`
IterLen(v) == IF v.kind = "str" THEN Len(v.text) ELSE Len(v.items)

\* whether the values `for x in v` yields have a .get method (are dicts)
ItemsAreDicts(v) == v.kind = "list"

Return(v) == [ok |-> TRUE, val |-> v]
Raise(msg) == [ok |-> FALSE, err |-> msg]

Min(a, b) == IF a < b THEN a ELSE b

\* str(e) of the AttributeError raised by  <str>.get(...)
AttributeErrorGet == <<"'str' object has no attribute 'get'">>
ZeroDivisionErr == <<"division by zero">>
ServiceErr == <<"service unavailable">>
\* str(e) of an exception raised while the EnhancedInterviewResponse is built
FormatterErr == <<"validation error for EnhancedInterviewResponse">>

\* the texts the service may answer with
Texts == { [i \in 1..n |-> "w"] : n \in 0..MaxTextLen }

Outcome == {"ok", "fail"}

\* one answer per call site of the service (qtext is read only when qgen = "ok")
Oracles ==
    { o \in [doc   : Outcome,     \* DocumentProcessorAgent.process_content_directly
              qgen  : Outcome,     \* QuestionGeneratorAgent.generate_questions
              qtext : Texts,       \*   response.message of that call
              item  : Outcome,     \* per-item calls (tips, quality metrics)
              cons  : Outcome,     \* QualityAssuranceAgent.validate_consistency
              guid  : Outcome,     \* FormatterAgent._generate_interviewer_guidance
              fw    : Outcome,     \* FormatterAgent._create_evaluation_framework
              fmt   : Outcome] :   \* FormatterAgent.create_final_output itself
        o.qgen = "fail" => o.qtext = <<>> }

Requests ==
    [role : {<<"Engineer">>}, level : {"Mid"}, round_number : {2},
     enable_parallel_processing : BOOLEAN, quality_assurance : BOOLEAN]

TaskNames == {"questions", "answer_tips", "quality"}

----------------------------------------------------------------------------
(* Scores (hundredths) *)

\* enhanced_coordinator.py _get_fallback_quality_data: 0.7
FallbackQualityScore == 70
\* quality_assurance.py per-item fallback metrics: 0.5
DefaultItemScore == 50
\* quality_assurance.py _parse_quality_metrics: score when the text names none
ParsedDefaultScore == 70
\* quality_assurance.py _parse_consistency_results
ParsedConsistency == 80
\* formatter.py _calculate_overall_quality: `return 0.7  # Default score`
FormatterDefaultQuality == 70

QualityMetrics(r, cl, co, cs, o) ==
    [relevance_score |-> r, clarity_score |-> cl, completeness_score |-> co,
     consistency_score |-> cs, overall_score |-> o]

AgentPerformanceMetrics(name, tokens) ==
    [agent_name |-> name, token_usage |-> tokens, success_rate |-> 100, error_count |-> 0]

RECURSIVE SumSeq(_)
SumSeq(s) == IF s = <<>> THEN 0 ELSE Head(s) + SumSeq(Tail(s))

\* n/d rounded to the nearest integer (d > 0, n >= 0)
RoundDiv(n, d) == (2 * n + d) \div (2 * d)

----------------------------------------------------------------------------
(* DocumentProcessorAgent *)

process_content_directly(jd_content, cv_content, s) ==
    IF s.doc = "ok"
    THEN Return([analysis |-> <<"analysis">>, status |-> "completed"])
    ELSE Raise(ServiceErr)

(* QuestionGeneratorAgent *)

generate_questions(document_analysis, role, level, round_number, s) ==
    IF s.qgen = "ok"
    THEN Return([questions |-> PyStr(s.qtext), level |-> level, role |-> role,
                 status |-> "completed"])
    ELSE Raise(ServiceErr)

(* AnswerTipsGeneratorAgent *)

FallbackTipText(role) ==
    <<"Evaluate candidate's response for relevance, specificity, and alignment with ">>
        \o role \o <<" requirements.">>

\* the record appended for item q when the service call succeeded / failed
AnswerTip(q, role, outcome) ==
    [question |-> q.question,
     evaluation_tips |-> IF outcome = "ok" THEN <<"tips for ">> \o q.question
                         ELSE FallbackTipText(role),
     scoring_criteria |-> IF outcome = "ok" THEN "extracted" ELSE "default"]

\* one try block around the whole loop: the first failing service call ends
\* the loop and every item from there on gets the fallback
AnswerTipsFailTogether(questions, context, outcomeAt) ==
    Return([i \in 1..IterLen(questions) |->
               AnswerTip(questions.items[i], context.role,
                         IF \E j \in 1..i : outcomeAt[j] = "fail" THEN "fail" ELSE "ok")])

\* `question_data.get(...)` is evaluated outside the try block: iterating a str
\* raises AttributeError on the first character
generate_answer_tips(questions, context, outcomeAt) ==
    IF IterLen(questions) > 0 /\ ~ItemsAreDicts(questions)
    THEN Raise(AttributeErrorGet)
    ELSE Return([i \in 1..IterLen(questions) |->
                    AnswerTip(questions.items[i], context.role, outcomeAt[i])])

----------------------------------------------------------------------------
(* QualityAssuranceAgent *)

DefaultItemMetrics ==
    QualityMetrics(DefaultItemScore, DefaultItemScore, DefaultItemScore,
                   DefaultItemScore, DefaultItemScore)

\* _parse_quality_metrics on a reply that names no score: every field 0.7 and
\* overall the mean of the four
ParsedItemMetrics ==
    QualityMetrics(ParsedDefaultScore, ParsedDefaultScore, ParsedDefaultScore,
                   ParsedDefaultScore, (4 * ParsedDefaultScore) \div 4)

\* the prompt (question.get(...)) is built outside the try block
assess_questions_quality(questions, context, outcomeAt) ==
    IF IterLen(questions) > 0 /\ ~ItemsAreDicts(questions)
    THEN Raise(AttributeErrorGet)
    ELSE Return([i \in 1..IterLen(questions) |->
                    IF outcomeAt[i] = "ok" THEN ParsedItemMetrics ELSE DefaultItemMetrics])

\* iterates zip(answers, questions)
assess_answers_quality(answers, questions, context, outcomeAt) ==
    LET n == Min(IterLen(answers), IterLen(questions)) IN
    IF n > 0 /\ (~ItemsAreDicts(questions) \/ ~ItemsAreDicts(answers))
    THEN Raise(AttributeErrorGet)
    ELSE Return([i \in 1..n |->
                    IF outcomeAt[i] = "ok" THEN ParsedItemMetrics ELSE DefaultItemMetrics])

AllChecks(b) ==
    [experience_level |-> b, role_relevance |-> b, round_focus |-> b,
     difficulty_balance |-> b, question_variety |-> b, answer_alignment |-> b]

_parse_consistency_results ==
    [overall_consistency |-> ParsedConsistency, issues |-> <<>>,
     recommendations |-> <<"Content appears consistent">>,
     validation_checks |-> AllChecks(TRUE)]

\* the service call made without the try block around it
ValidateConsistencyUnguarded(questions, answers, context, s) ==
    IF IterLen(questions) > 0 /\ ~ItemsAreDicts(questions)
    THEN Raise(AttributeErrorGet)
    ELSE IF s.cons = "ok"
    THEN Return(_parse_consistency_results)
    ELSE Raise(ServiceErr)

\* _format_questions_for_validation (q.get(...)) runs while the prompt is built,
\* outside the try block; only the service call is guarded
validate_consistency(questions, answers, context, s) ==
    IF IterLen(questions) > 0 /\ ~ItemsAreDicts(questions)
    THEN Raise(AttributeErrorGet)
    ELSE IF s.cons = "ok"
    THEN Return(_parse_consistency_results)
    ELSE Return([overall_consistency |-> DefaultItemScore,
                 issues |-> << <<"Validation error: ">> \o ServiceErr >>,
                 recommendations |-> <<"Manual review recommended">>,
                 validation_checks |-> AllChecks(FALSE)])

OverallScores(metrics) == [i \in 1..Len(metrics) |-> metrics[i].overall_score]

\* overall = (avg_q + avg_a + consistency) / 3, compared with the label thresholds
\* by cross-multiplication; divides by len(question_metrics), len(answer_metrics)
generate_quality_report(question_metrics, answer_metrics, consistency_results, context) ==
    IF Len(question_metrics) = 0 \/ Len(answer_metrics) = 0
    THEN Raise(ZeroDivisionErr)
    ELSE
      LET lq == Len(question_metrics)
          la == Len(answer_metrics)
          num == SumSeq(OverallScores(question_metrics)) * la
                   + SumSeq(OverallScores(answer_metrics)) * lq
                   + consistency_results.overall_consistency * lq * la
          den == 3 * lq * la
          assessment ==
              IF num >= 90 * den THEN "Excellent quality - Ready for immediate use"
              ELSE IF num >= 70 * den THEN "Good quality - Minor improvements recommended"
              ELSE IF num >= 50 * den THEN "Acceptable quality - Some improvements needed"
              ELSE "Below standard - Significant improvements required"
          suggestions ==
              (IF SumSeq(OverallScores(question_metrics)) < 70 * lq
               THEN <<"Review question relevance and clarity">> ELSE <<>>)
              \o (IF SumSeq(OverallScores(answer_metrics)) < 70 * la
                  THEN <<"Enhance answer depth and structure">> ELSE <<>>)
              \o (IF consistency_results.overall_consistency < 70
                  THEN <<"Improve consistency across content">> ELSE <<>>)
              \o consistency_results.recommendations
      IN Return([overall_assessment |-> assessment,
                 question_quality |-> OverallScores(question_metrics),
                 answer_quality |-> OverallScores(answer_metrics),
                 consistency_analysis |-> consistency_results,
                 improvement_suggestions |-> suggestions,
                 validation_results |-> consistency_results.validation_checks])

----------------------------------------------------------------------------
(* FormatterAgent *)

DictGet(d, k, default) == IF k \in DOMAIN d THEN d[k] ELSE default

_generate_follow_up_questions(question_type) ==
    SubSeq(
      IF question_type = "behavioral"
        THEN <<"behavioral-1", "behavioral-2", "behavioral-3">>
      ELSE IF question_type = "technical"
        THEN <<"technical-1", "technical-2", "technical-3">>
      ELSE IF question_type = "situational"
        THEN <<"situational-1", "situational-2", "situational-3">>
      ELSE <<"cultural_fit-1", "cultural_fit-2", "cultural_fit-3">>,
      1, 2)

\* zip(questions, quality_metrics): one formatted record per PAIR
_format_questions(questions_data, context) ==
    LET questions == DictGet(questions_data, "questions", PyList(<<>>))
        metrics == DictGet(questions_data, "quality_metrics", <<>>)
        n == Min(IterLen(questions), Len(metrics))
    IN IF n > 0 /\ ~ItemsAreDicts(questions)
       THEN Raise(AttributeErrorGet)
       ELSE Return([i \in 1..n |->
                [question |-> questions.items[i].question,
                 type |-> questions.items[i].type,
                 quality_metrics |-> metrics[i],
                 follow_up_questions |->
                     _generate_follow_up_questions(questions.items[i].type)]])

\* str(e) of the error raised when EnhancedSampleAnswer, the alias of
\* EnhancedAnswerTips, is built without the required fields of that model
SampleAnswerErr == <<"validation error for EnhancedAnswerTips">>

\* reads the key 'answers' and zips it with 'quality_metrics'; for each pair
\* it builds EnhancedSampleAnswer(question=, answer=, key_points=, ...), which
\* lacks evaluation_tips, what_to_listen_for, scoring_criteria,
\* assessment_framework and time_management
_format_answers(answers_data, context) ==
    LET answers == DictGet(answers_data, "answers", PyList(<<>>))
        metrics == DictGet(answers_data, "quality_metrics", <<>>)
        n == Min(IterLen(answers), Len(metrics))
    IN IF n > 0 /\ ~ItemsAreDicts(answers)
       THEN Raise(AttributeErrorGet)
       ELSE IF n > 0 THEN Raise(SampleAnswerErr)
       ELSE Return(<<>>)

\* try: agent call, parse / except: default
\* the guidance call made without the try block around it
InterviewerGuidanceUnguarded(s) ==
    IF s.guid = "ok" THEN Return("parsed_guidance") ELSE Raise(ServiceErr)

_generate_interviewer_guidance(s) ==
    Return(IF s.guid = "ok" THEN "parsed_guidance" ELSE "default_guidance")

_create_evaluation_framework(s) ==
    Return(IF s.fw = "ok" THEN "parsed_framework" ELSE "default_framework")

\* no default for an empty payload: the score keeps the 0.0 of the response model
OverallQualityNoDefault(qd) ==
    IF DOMAIN qd = {}
    THEN 0
    ELSE
      LET qs == DictGet(qd, "question_quality", <<>>)
          as == DictGet(qd, "answer_quality", <<>>)
          ca == DictGet(qd, "consistency_analysis", EmptyDict)
          c  == DictGet(ca, "overall_consistency", FormatterDefaultQuality)
          sq == IF Len(qs) > 0 THEN SumSeq(qs) ELSE FormatterDefaultQuality
          lq == IF Len(qs) > 0 THEN Len(qs) ELSE 1
          sa == IF Len(as) > 0 THEN SumSeq(as) ELSE FormatterDefaultQuality
          la == IF Len(as) > 0 THEN Len(as) ELSE 1
      IN RoundDiv(40 * sq * la + 40 * sa * lq + 20 * c * lq * la, 100 * lq * la)

\* the three parts counted alike, as the quality report does
OverallQualityEqualThirds(qd) ==
    IF DOMAIN qd = {}
    THEN FormatterDefaultQuality
    ELSE
      LET qs == DictGet(qd, "question_quality", <<>>)
          as == DictGet(qd, "answer_quality", <<>>)
          ca == DictGet(qd, "consistency_analysis", EmptyDict)
          c  == DictGet(ca, "overall_consistency", FormatterDefaultQuality)
          sq == IF Len(qs) > 0 THEN SumSeq(qs) ELSE FormatterDefaultQuality
          lq == IF Len(qs) > 0 THEN Len(qs) ELSE 1
          sa == IF Len(as) > 0 THEN SumSeq(as) ELSE FormatterDefaultQuality
          la == IF Len(as) > 0 THEN Len(as) ELSE 1
      IN RoundDiv(sq * la + sa * lq + c * lq * la, 3 * lq * la)

\* 0.4 * avg(question scores) + 0.4 * avg(answer scores) + 0.2 * consistency,
\* rounded to two decimals; 0.7 for an empty payload and for each missing part
_calculate_overall_quality(qd) ==
    IF DOMAIN qd = {}
    THEN FormatterDefaultQuality
    ELSE
      LET qs == DictGet(qd, "question_quality", <<>>)
          as == DictGet(qd, "answer_quality", <<>>)
          ca == DictGet(qd, "consistency_analysis", EmptyDict)
          c  == DictGet(ca, "overall_consistency", FormatterDefaultQuality)
          sq == IF Len(qs) > 0 THEN SumSeq(qs) ELSE FormatterDefaultQuality
          lq == IF Len(qs) > 0 THEN Len(qs) ELSE 1
          sa == IF Len(as) > 0 THEN SumSeq(as) ELSE FormatterDefaultQuality
          la == IF Len(as) > 0 THEN Len(as) ELSE 1
      IN RoundDiv(40 * sq * la + 40 * sa * lq + 20 * c * lq * la, 100 * lq * la)

_create_generation_metadata(context, metrics) ==
    [agents_used |-> [i \in 1..Len(metrics) |-> metrics[i].agent_name],
     total_token_usage |-> SumSeq([i \in 1..Len(metrics) |-> metrics[i].token_usage]),
     parallel_processing_enabled |-> context.parallel_processing,
     quality_assurance_enabled |-> context.quality_assurance]

\* The response is built with the keyword sample_answers=..., which is not a
\* field of EnhancedInterviewResponse: answer_tips keeps its default, [].
\* processing_metrics is validated into a list of its own (a snapshot).
\* Nothing in the body is guarded: an exception of a formatting step or of the
\* construction of the response leaves the coroutine.
create_final_output(questions_data, answers_data, qd, metrics, context, s) ==
    LET fq == _format_questions(questions_data, context)
        fa == _format_answers(answers_data, context)
        guidance == _generate_interviewer_guidance(s)
        framework == _create_evaluation_framework(s)
    IN IF ~fq.ok THEN fq
       ELSE IF ~fa.ok THEN fa
       ELSE IF ~guidance.ok THEN guidance
       ELSE IF ~framework.ok THEN framework
       ELSE IF s.fmt = "fail" THEN Raise(FormatterErr)
       ELSE Return(
         [questions |-> fq.val,
          answer_tips |-> <<>>,
          interview_focus |-> "round focus",
          preparation_tips |-> guidance.val,
          overall_quality_score |-> _calculate_overall_quality(qd),
          processing_metrics |-> metrics,
          quality_report |-> qd,
          generation_metadata |-> _create_generation_metadata(context, metrics),
          interview_structure |-> guidance.val,
          evaluation_framework |-> framework.val,
          candidate_assessment_guide |-> guidance.val])

----------------------------------------------------------------------------
(* EnhancedCoordinatorAgent: helpers *)

Ev(component, what) == <<component, what>>

Context(req) ==
    [role |-> req.role, level |-> req.level, round |-> req.round_number,
     parallel_processing |-> req.enable_parallel_processing,
     quality_assurance |-> req.quality_assurance]

\* returns ONE multi-line string, not a list of question dicts
_generate_basic_questions(context) ==
    PyStr(<<"Basic interview questions for ", context.level>> \o context.role
            \o <<"1. Tell me about your experience with ">> \o context.role)

_generate_questions_async(analysis, context, s) ==
    LET r == generate_questions(analysis, context.role, context.level, context.round, s)
    IN IF r.ok THEN r ELSE Raise(<<"Question generation failed: ">> \o r.err)

_generate_answer_tips_async(analysis, context, s) ==
    LET basic_questions == _generate_basic_questions(context)
        r == generate_answer_tips(basic_questions, context,
                                  [i \in 1..IterLen(basic_questions) |-> s.item])
    IN IF r.ok THEN Return([answer_tips |-> PyList(r.val), status |-> "completed"])
       ELSE Raise(<<"Answer tips generation failed: ">> \o r.err)

_prepare_quality_assessment_async(analysis, context) ==
    Return([criteria_prepared |-> TRUE, assessment_framework |-> "ready",
            validation_rules |-> "loaded"])

_get_fallback_questions ==
    [questions |-> PyStr(<<"Fallback questions generated">>), status |-> "fallback",
     quality_metrics |-> <<>>]

_get_fallback_answer_tips ==
    [answer_tips |-> PyStr(<<"Fallback evaluation tips generated">>),
     status |-> "fallback", quality_metrics |-> <<>>]

_get_fallback_quality ==
    [quality_assessment |-> "Basic quality check completed", status |-> "fallback"]

_get_fallback_quality_data ==
    [question_quality |->
        <<FallbackQualityScore, FallbackQualityScore, FallbackQualityScore>>,
     answer_quality |->
        <<FallbackQualityScore, FallbackQualityScore, FallbackQualityScore>>,
     consistency_analysis |-> [overall_consistency |-> FallbackQualityScore],
     quality_report |-> [text |-> "Basic quality assessment completed"]]

SampleQuestions ==
    PyList([i \in 1..3 |-> [question |-> <<"Sample question">>, type |-> "technical",
                            difficulty |-> "intermediate"]])

SampleAnswerTips ==
    PyList([i \in 1..3 |-> [question |-> <<"Sample question">>,
                            evaluation_tips |-> <<"Sample evaluation tips">>]])

_extract_questions_from_result(questions_result) ==
    IF "questions" \in DOMAIN questions_result
    THEN questions_result.questions ELSE SampleQuestions

_extract_answer_tips_from_result(answer_tips_result) ==
    IF "answer_tips" \in DOMAIN answer_tips_result
    THEN answer_tips_result.answer_tips ELSE SampleAnswerTips

\* the coroutine a task runs, and the metric it appends when it returns
RunTask(t, ar, s) ==
    CASE t = "questions"   -> _generate_questions_async(ar.analysis, ar.context, s)
      [] t = "answer_tips" -> _generate_answer_tips_async(ar.analysis, ar.context, s)
      [] t = "quality"     -> _prepare_quality_assessment_async(ar.analysis, ar.context)

TaskMetric(t) ==
    CASE t = "questions"   -> AgentPerformanceMetrics("QuestionGenerator", 2000)
      [] t = "answer_tips" -> AgentPerformanceMetrics("AnswerTipsGenerator", 2500)
      [] t = "quality"     -> AgentPerformanceMetrics("QualityPreparation", 500)

TaskFallback(t) ==
    CASE t = "questions"   -> _get_fallback_questions
      [] t = "answer_tips" -> _get_fallback_answer_tips
      [] t = "quality"     -> _get_fallback_quality

\* the tasks _phase2_parallel_generation creates
LaunchedTasks(req) ==
    {"questions", "answer_tips"} \cup (IF req.quality_assurance THEN {"quality"} ELSE {})

----------------------------------------------------------------------------
(* EnhancedCoordinatorAgent: phases *)

\* phase 1 continuing with an empty analysis when the document processor raises
Phase1SwallowFailure(req, s) ==
    LET r == process_content_directly("jd", "cv", s)
    IN Return([analysis |-> IF r.ok THEN r.val.analysis ELSE <<>>,
               context |-> Context(req)])

\* Phase 1: _phase1_document_analysis
_phase1_document_analysis(req, s) ==
    LET r == process_content_directly("jd", "cv", s)
    IN IF r.ok THEN Return([analysis |-> r.val.analysis, context |-> Context(req)])
       ELSE Raise(<<"Document analysis failed: ">> \o r.err)

\* an await on the gather that is never resumed
GatherNeverResumes(ts) == FALSE

\* a join that resumes as soon as one task is done
GatherFirstCompleted(ts) == \E t \in DOMAIN ts : ts[t] = "finished"

\* asyncio.gather(*tasks, return_exceptions=True): resumes when EVERY task is done
GatherReady(ts) == \A t \in DOMAIN ts : ts[t] = "finished"

TaskResult(res, t) ==
    IF t \notin DOMAIN res THEN EmptyDict
    ELSE IF res[t].ok THEN res[t].val ELSE TaskFallback(t)

ParallelProcessingResult(res) ==
    [questions_result |-> TaskResult(res, "questions"),
     answer_tips_result |-> TaskResult(res, "answer_tips"),
     quality_result |-> TaskResult(res, "quality"),
     success_status |-> [t \in DOMAIN res |-> res[t].ok]]

\* the join as a fail-fast gather would behave: the first exception propagates
GatherFailFast(res) ==
    IF \E t \in DOMAIN res : ~res[t].ok
    THEN Raise(<<"Parallel generation failed: ">>
                 \o res[CHOOSE t \in DOMAIN res : ~res[t].ok].err)
    ELSE Return(ParallelProcessingResult(res))

\* the loop over zip(results, task_names): exceptions become fallbacks
GatherOutcome(res) == Return(ParallelProcessingResult(res))

\* Phase 2, sequential: the first exception leaves the try block and is
\* re-raised as "Sequential generation failed"
_phase2_sequential_generation(ar, req, s) ==
    LET q  == _generate_questions_async(ar.analysis, ar.context, s)
        t  == _generate_answer_tips_async(ar.analysis, ar.context, s)
        ql == IF req.quality_assurance
              THEN _prepare_quality_assessment_async(ar.analysis, ar.context)
              ELSE Return(EmptyDict)
        qlEv == IF req.quality_assurance
                THEN <<Ev("quality", "start"), Ev("quality", "end")>> ELSE <<>>
        qlMet == IF req.quality_assurance THEN <<TaskMetric("quality")>> ELSE <<>>
    IN IF ~q.ok
       THEN [outcome |-> Raise(<<"Sequential generation failed: ">> \o q.err),
             metrics |-> <<>>,
             events  |-> <<Ev("questions", "start"), Ev("questions", "raised")>>]
       ELSE IF ~t.ok
       THEN [outcome |-> Raise(<<"Sequential generation failed: ">> \o t.err),
             metrics |-> <<TaskMetric("questions")>>,
             events  |-> <<Ev("questions", "start"), Ev("questions", "end"),
                           Ev("answer_tips", "start"), Ev("answer_tips", "raised")>>]
       ELSE [outcome |-> Return([questions_result |-> q.val,
                                 answer_tips_result |-> t.val,
                                 quality_result |-> ql.val,
                                 success_status |-> [n \in TaskNames |-> TRUE]]),
             metrics |-> <<TaskMetric("questions"), TaskMetric("answer_tips")>> \o qlMet,
             events  |-> <<Ev("questions", "start"), Ev("questions", "end"),
                           Ev("answer_tips", "start"), Ev("answer_tips", "end")>>
                           \o qlEv]

\* the body of the try block of _perform_quality_assurance: the four
\* QualityAssuranceAgent operations in order, stopping at the first exception
QualityAssuranceRun(gr, context, s) ==
    LET questions == _extract_questions_from_result(gr.questions_result)
        answer_tips == _extract_answer_tips_from_result(gr.answer_tips_result)
        outs(v) == [i \in 1..IterLen(v) |-> s.item]
        qm == assess_questions_quality(questions, context, outs(questions))
        am == assess_answers_quality(answer_tips, questions, context, outs(answer_tips))
        cr == validate_consistency(questions, answer_tips, context, s)
        rp == generate_quality_report(qm.val, am.val, cr.val, context)
        op(name, r) == <<Ev(name, "start"), Ev(name, IF r.ok THEN "end" ELSE "raised")>>
    IN IF ~qm.ok
       THEN [outcome |-> qm, events |-> op("assess_questions_quality", qm)]
       ELSE IF ~am.ok
       THEN [outcome |-> am,
             events |-> op("assess_questions_quality", qm)
                          \o op("assess_answers_quality", am)]
       ELSE IF ~cr.ok
       THEN [outcome |-> cr,
             events |-> op("assess_questions_quality", qm)
                          \o op("assess_answers_quality", am)
                          \o op("validate_consistency", cr)]
       ELSE IF ~rp.ok
       THEN [outcome |-> rp,
             events |-> op("assess_questions_quality", qm)
                          \o op("assess_answers_quality", am)
                          \o op("validate_consistency", cr)
                          \o op("generate_quality_report", rp)]
       ELSE [outcome |-> Return([question_quality |-> OverallScores(qm.val),
                                 answer_quality |-> OverallScores(am.val),
                                 consistency_analysis |-> cr.val,
                                 quality_report |-> rp.val]),
             events |-> op("assess_questions_quality", qm)
                          \o op("assess_answers_quality", am)
                          \o op("validate_consistency", cr)
                          \o op("generate_quality_report", rp)]

\* the try block propagating its exception instead of handling it
QualityAssuranceUncaught(run) ==
    IF run.outcome.ok THEN run.outcome
    ELSE Raise(<<"Quality assurance failed: ">> \o run.outcome.err)

\* except Exception: return self._get_fallback_quality_data()
_perform_quality_assurance(run) ==
    IF run.outcome.ok THEN run.outcome ELSE Return(_get_fallback_quality_data)

\* phase 3 handing back an empty package when the formatter raises
FinalizationSwallowsFailure(r) ==
    IF r.ok THEN r
    ELSE Return([questions |-> <<>>, answer_tips |-> <<>>,
                 overall_quality_score |-> 0, processing_metrics |-> <<>>,
                 quality_report |-> EmptyDict, generation_metadata |-> EmptyDict])

\* _phase3_finalization: `except Exception as e: raise Exception(f"Finalization
\* failed: {str(e)}")` around the awaited result r
FinalizationOutcome(r) ==
    IF r.ok THEN r ELSE Raise(<<"Finalization failed: ">> \o r.err)

ZeroMetrics == QualityMetrics(0, 0, 0, 0, 0)

\* an error question that leaves the message out
ErrorQuestionTextNoMessage(error_message) == <<"Error occurred during generation">>

\* question=f"Error occurred during generation: {error_message}"
ErrorQuestionText(error_message) ==
    <<"Error occurred during generation: ">> \o error_message

_create_error_response(error_message, req, metrics) ==
    [questions |->
        << [question |-> ErrorQuestionText(error_message),
            type |-> "technical",
            quality_metrics |-> ZeroMetrics,
            follow_up_questions |-> <<>>] >>,
     answer_tips |->
        << [question |-> <<"Error occurred">>,
            evaluation_tips |-> <<"Please check the input parameters and try again.">>,
            scoring_criteria |-> "N/A - Error state",
            quality_metrics |-> ZeroMetrics] >>,
     interview_focus |-> "Error in generation process",
     preparation_tips |-> "Please retry with valid inputs",
     overall_quality_score |-> 0,
     processing_metrics |-> metrics,
     quality_report |-> [error |-> error_message],
     generation_metadata |-> [error |-> TRUE, error_message |-> error_message],
     interview_structure |-> "Generation failed",
     evaluation_framework |-> "Not available",
     candidate_assessment_guide |-> "Manual assessment required due to error"]

----------------------------------------------------------------------------
(* EnhancedCoordinatorAgent.generate_interview_content_async as a state machine *)

\* EnhancedInterviewRequest() with its field defaults
DefaultRequest ==
    [role |-> <<"Engineer">>, level |-> "Mid", round_number |-> 2,
     enable_parallel_processing |-> TRUE, quality_assurance |-> TRUE]

NoPrev == [valid |-> FALSE, request |-> DefaultRequest, state |-> "Idle",
           questions |-> <<>>, answer_tips |-> <<>>]

NoCall == [fn |-> "none"]

\* no graph has been invoked
NoGraph == [nodes |-> {}, edges |-> {}, entry_points |-> {}]
NoGraphState == [status |-> "idle", results |-> EmptyDict, ready |-> {},
                 executing |-> {}, execution_order |-> <<>>]

Init ==
    /\ pc = "Idle"
    /\ request = DefaultRequest
    /\ svc \in Oracles
    /\ performance_metrics = <<>>
    /\ analysis_result = None
    /\ tasks = EmptyDict
    /\ results = EmptyDict
    /\ generation_result = None
    /\ quality_data = EmptyDict
    /\ final_response = None
    /\ exc = <<>>
    /\ package = None
    /\ trace = <<>>
    /\ prev = NoPrev
    /\ b_state = "Idle"
    /\ b_requests = <<>>
    /\ b_svc = <<>>
    /\ b_pc = <<>>
    /\ b_results = <<>>
    /\ b_packages = <<>>
    /\ b_returned = None
    /\ call = NoCall
    /\ ret = None
    /\ graph = NoGraph
    /\ graph_state = NoGraphState

\* a call that goes on with the list the previous call left
KeptMetricsList == performance_metrics

\* self.performance_metrics = []
NewMetricsList == <<>>

\* the caller invokes generate_interview_content_async(request): the metrics
\* list is replaced by a new empty list and phase 1 begins
Call(r) ==
    /\ UNCHANGED <<batchVars, unitVars, graphVars>>
    /\ pc \in {"Idle", "Done", "Failed"}
    /\ request' = r
    /\ performance_metrics' = NewMetricsList
    /\ prev' = IF pc = "Idle" THEN NoPrev
               ELSE [valid |-> TRUE, request |-> request, state |-> pc,
                     questions |-> package.questions,
                     answer_tips |-> package.answer_tips]
    /\ analysis_result' = None
    /\ tasks' = EmptyDict
    /\ results' = EmptyDict
    /\ generation_result' = None
    /\ quality_data' = EmptyDict
    /\ final_response' = None
    /\ exc' = <<>>
    /\ package' = None
    /\ trace' = <<>>
    /\ pc' = "AnalyzingDocuments"
    /\ UNCHANGED svc

Phase1DocumentAnalysis ==
    /\ UNCHANGED <<batchVars, unitVars, graphVars>>
    /\ pc = "AnalyzingDocuments"
    /\ LET r == _phase1_document_analysis(request, svc) IN
         IF r.ok
         THEN /\ analysis_result' = r.val
              /\ performance_metrics' =
                    Append(performance_metrics,
                           AgentPerformanceMetrics("DocumentProcessor", 1500))
              /\ trace' = trace \o <<Ev("document_processor", "start"),
                                      Ev("document_processor", "end")>>
              /\ pc' = "Generating"
              /\ UNCHANGED exc
         ELSE /\ exc' = r.err
              /\ trace' = trace \o <<Ev("document_processor", "start"),
                                      Ev("document_processor", "raised")>>
              /\ pc' = "Raising"
              /\ UNCHANGED <<analysis_result, performance_metrics>>
    /\ UNCHANGED <<request, svc, tasks, results, generation_result, quality_data,
                   final_response, package, prev>>

\* _phase2_parallel_generation up to the await: asyncio.create_task per task
Phase2LaunchTasks ==
    /\ UNCHANGED <<batchVars, unitVars, graphVars>>
    /\ pc = "Generating"
    /\ request.enable_parallel_processing
    /\ tasks' = [t \in LaunchedTasks(request) |-> "created"]
    /\ results' = EmptyDict
    /\ pc' = "Gathering"
    /\ UNCHANGED <<request, svc, performance_metrics, analysis_result,
                   generation_result, quality_data, final_response, exc, package,
                   trace, prev>>

\* the event loop starts a created task
TaskStart(t) ==
    /\ UNCHANGED <<batchVars, unitVars, graphVars>>
    /\ pc = "Gathering"
    /\ t \in DOMAIN tasks
    /\ tasks[t] = "created"
    /\ tasks' = [tasks EXCEPT ![t] = "running"]
    /\ trace' = Append(trace, Ev(t, "start"))
    /\ UNCHANGED <<pc, request, svc, performance_metrics, analysis_result, results,
                   generation_result, quality_data, final_response, exc, package, prev>>

\* every task writing its outcome to one common slot
StoreResultShared(res, t, r) == [n \in DOMAIN res \cup {t} |-> r]

\* each task object keeps its own outcome; gather collects one entry per task
StoreResult(res, t, r) == [n \in DOMAIN res \cup {t} |-> IF n = t THEN r ELSE res[n]]

\* a running task returns (appending its metric) or raises
TaskFinish(t) ==
    /\ UNCHANGED <<batchVars, unitVars, graphVars>>
    /\ pc = "Gathering"
    /\ t \in DOMAIN tasks
    /\ tasks[t] = "running"
    /\ LET r == RunTask(t, analysis_result, svc) IN
         /\ results' = StoreResult(results, t, r)
         /\ performance_metrics' =
               IF r.ok THEN Append(performance_metrics, TaskMetric(t))
               ELSE performance_metrics
         /\ trace' = Append(trace, Ev(t, IF r.ok THEN "end" ELSE "raised"))
    /\ tasks' = [tasks EXCEPT ![t] = "finished"]
    /\ UNCHANGED <<pc, request, svc, analysis_result, generation_result,
                   quality_data, final_response, exc, package, prev>>

\* the await on gather resumes and the results are processed
Phase2Gather ==
    /\ UNCHANGED <<batchVars, unitVars, graphVars>>
    /\ pc = "Gathering"
    /\ GatherReady(tasks)
    /\ LET r == GatherOutcome(results) IN
         IF r.ok
         THEN /\ generation_result' = r.val
              /\ pc' = "Finalizing"
              /\ UNCHANGED exc
         ELSE /\ exc' = r.err
              /\ pc' = "Raising"
              /\ UNCHANGED generation_result
    /\ UNCHANGED <<request, svc, performance_metrics, analysis_result, tasks,
                   results, quality_data, final_response, package, trace, prev>>

Phase2Sequential ==
    /\ UNCHANGED <<batchVars, unitVars, graphVars>>
    /\ pc = "Generating"
    /\ ~request.enable_parallel_processing
    /\ LET run == _phase2_sequential_generation(analysis_result, request, svc) IN
         /\ performance_metrics' = performance_metrics \o run.metrics
         /\ trace' = trace \o run.events
         /\ IF run.outcome.ok
            THEN /\ generation_result' = run.outcome.val
                 /\ pc' = "Finalizing"
                 /\ UNCHANGED exc
            ELSE /\ exc' = run.outcome.err
                 /\ pc' = "Raising"
                 /\ UNCHANGED generation_result
    /\ UNCHANGED <<request, svc, analysis_result, tasks, results, quality_data,
                   final_response, package, prev>>

\* quality assurance run whatever the request says
QualityAssuranceAlways(req) == TRUE

\* `if request.quality_assurance:` in _phase3_finalization
QualityAssuranceEnabled(req) == req.quality_assurance

\* Phase 3, first half: quality_data = await self._perform_quality_assurance(...)
Phase3QualityAssurance ==
    /\ UNCHANGED <<batchVars, unitVars, graphVars>>
    /\ pc = "Finalizing"
    /\ QualityAssuranceEnabled(request)
    /\ LET run == QualityAssuranceRun(generation_result, analysis_result.context, svc)
           r == _perform_quality_assurance(run)
       IN /\ trace' = trace \o run.events
          /\ performance_metrics' =
                IF run.outcome.ok
                THEN Append(performance_metrics,
                            AgentPerformanceMetrics("QualityAssurance", 1200))
                ELSE performance_metrics
          /\ IF r.ok
             THEN /\ quality_data' = r.val
                  /\ pc' = "Formatting"
                  /\ UNCHANGED exc
             ELSE /\ exc' = FinalizationOutcome(r).err
                  /\ pc' = "Raising"
                  /\ UNCHANGED quality_data
    /\ UNCHANGED <<request, svc, analysis_result, tasks, results, generation_result,
                   final_response, package, prev>>

\* quality assurance disabled: quality_data stays {}
Phase3SkipQuality ==
    /\ UNCHANGED <<batchVars, unitVars, graphVars>>
    /\ pc = "Finalizing"
    /\ ~QualityAssuranceEnabled(request)
    /\ quality_data' = EmptyDict
    /\ pc' = "Formatting"
    /\ UNCHANGED <<request, svc, performance_metrics, analysis_result, tasks, results,
                   generation_result, final_response, exc, package, trace, prev>>

\* Phase 3, second half: self.formatter.create_final_output(...)
Phase3Format ==
    /\ UNCHANGED <<batchVars, unitVars, graphVars>>
    /\ pc = "Formatting"
    /\ LET f == create_final_output(generation_result.questions_result,
                                    generation_result.answer_tips_result,
                                    quality_data, performance_metrics,
                                    analysis_result.context, svc)
           r == FinalizationOutcome(f)
       IN /\ trace' = trace \o <<Ev("formatter", "start"),
                                  Ev("formatter", IF f.ok THEN "end" ELSE "raised")>>
          /\ IF r.ok
             THEN /\ final_response' = r.val
                  /\ performance_metrics' =
                        Append(performance_metrics,
                               AgentPerformanceMetrics("QualityAssurance+Formatter", 800))
                  /\ pc' = "Returning"
                  /\ UNCHANGED exc
             ELSE /\ exc' = r.err
                  /\ pc' = "Raising"
                  /\ UNCHANGED <<final_response, performance_metrics>>
    /\ UNCHANGED <<request, svc, analysis_result, tasks, results, generation_result,
                   quality_data, package, prev>>

\* back in generate_interview_content_async: the coordinator's own metric is
\* appended and final_result is returned
ReturnResponse ==
    /\ UNCHANGED <<batchVars, unitVars, graphVars>>
    /\ pc = "Returning"
    /\ performance_metrics' =
          Append(performance_metrics, AgentPerformanceMetrics("EnhancedCoordinator", 0))
    /\ package' = final_response
    /\ pc' = "Done"
    /\ UNCHANGED <<request, svc, analysis_result, tasks, results, generation_result,
                   quality_data, final_response, exc, trace, prev>>

\* except Exception as e: return await self._create_error_response(str(e), request)
HandleException ==
    /\ UNCHANGED <<batchVars, unitVars, graphVars>>
    /\ pc = "Raising"
    /\ package' = _create_error_response(exc, request, performance_metrics)
    /\ pc' = "Failed"
    /\ UNCHANGED <<request, svc, performance_metrics, analysis_result, tasks, results,
                   generation_result, quality_data, final_response, exc, trace, prev>>

Next ==
    \/ \E r \in Requests : Call(r)
    \/ Phase1DocumentAnalysis
    \/ Phase2LaunchTasks
    \/ \E t \in TaskNames : TaskStart(t)
    \/ \E t \in TaskNames : TaskFinish(t)
    \/ Phase2Gather
    \/ Phase2Sequential
    \/ Phase3QualityAssurance
    \/ Phase3SkipQuality
    \/ Phase3Format
    \/ ReturnResponse
    \/ HandleException

Spec == Init /\ [][Next]_vars

\* a step of the coroutine of the call in progress (everything but the
\* caller's decision to call again)
CoroutineStep ==
    \/ Phase1DocumentAnalysis
    \/ Phase2LaunchTasks
    \/ \E t \in TaskNames : TaskStart(t)
    \/ \E t \in TaskNames : TaskFinish(t)
    \/ Phase2Gather
    \/ Phase2Sequential
    \/ Phase3QualityAssurance
    \/ Phase3SkipQuality
    \/ Phase3Format
    \/ ReturnResponse
    \/ HandleException

\* every service call returns or raises (each is inside one step), and the
\* event loop runs a coroutine that is ready: a step that stays possible is
\* taken
LiveSpec == Init /\ [][Next]_vars /\ WF_vars(CoroutineStep)

----------------------------------------------------------------------------
(* InterviewAgent.batch_generate_async: the coroutines of several requests   *)
(* run as asyncio tasks on ONE coordinator, whose performance_metrics        *)
(* attribute they all rebind and append to.  A coroutine is suspended only   *)
(* where it awaits the gather of its own tasks (parallel mode): everything   *)
(* else it does between two such points is one step.  The tasks of one       *)
(* request are queued together and none of them suspends, so the event loop  *)
(* runs them one after the other, in the order of their creation: one step.  *)
(* The records carry the request that produced them (owner), which the       *)
(* program does not store.                                                   *)

BatchRequests == Requests

\* the service fails, or not, on the document analysis of a request
BatchOracles ==
    { o \in Oracles : /\ o.qgen = "ok" /\ o.qtext = <<>> /\ o.item = "ok"
                      /\ o.cons = "ok" /\ o.guid = "ok" /\ o.fw = "ok"
                      /\ o.fmt = "ok" }

Owned(i, rec) ==
    [agent_name |-> rec.agent_name, token_usage |-> rec.token_usage,
     success_rate |-> rec.success_rate, error_count |-> rec.error_count,
     owner |-> i]

OwnedSeq(i, recs) == [k \in 1..Len(recs) |-> Owned(i, recs[k])]

\* _phase1_document_analysis for request i of the batch
BatchAnalysis(reqs, svcs, i) == _phase1_document_analysis(reqs[i], svcs[i])

\* what is left of generate_interview_content_async once phase 2 has given g
\* (a ParallelProcessingResult or an exception), self.performance_metrics
\* being m: phase 3, the coordinator's own record, the top-level handler.
\* Gives the value returned and the list as it is left.
FinishCall(reqs, svcs, i, g, m) ==
    LET req == reqs[i]
        s == svcs[i]
        ar == BatchAnalysis(reqs, svcs, i).val
    IN IF ~g.ok
       THEN [package |-> _create_error_response(g.err, req, m), metrics |-> m]
       ELSE
         LET run == QualityAssuranceRun(g.val, ar.context, s)
             qa == IF QualityAssuranceEnabled(req)
                   THEN _perform_quality_assurance(run) ELSE Return(EmptyDict)
             m1 == IF QualityAssuranceEnabled(req) /\ run.outcome.ok
                   THEN Append(m, Owned(i, AgentPerformanceMetrics("QualityAssurance", 1200)))
                   ELSE m
             f == FinalizationOutcome(
                    create_final_output(g.val.questions_result,
                                        g.val.answer_tips_result,
                                        qa.val, m1, ar.context, s))
         IN IF f.ok
            THEN [package |-> f.val,
                  metrics |-> m1 \o
                    <<Owned(i, AgentPerformanceMetrics("QualityAssurance+Formatter", 800)),
                      Owned(i, AgentPerformanceMetrics("EnhancedCoordinator", 0))>>]
            ELSE [package |-> _create_error_response(f.err, req, m1), metrics |-> m1]

\* generate_interview_content_async from its first line to its first
\* suspension (the gather of parallel mode) or, without one, to its return
StartCall(reqs, svcs, i) ==
    LET req == reqs[i]
        a == BatchAnalysis(reqs, svcs, i)
        m1 == Append(NewMetricsList, Owned(i, AgentPerformanceMetrics("DocumentProcessor", 1500)))
        run == _phase2_sequential_generation(a.val, req, svcs[i])
    IN IF ~a.ok
       THEN [suspended |-> FALSE, metrics |-> NewMetricsList,
             package |-> _create_error_response(a.err, req, NewMetricsList)]
       ELSE IF req.enable_parallel_processing
       THEN [suspended |-> TRUE, metrics |-> m1, package |-> None]
       ELSE LET fin == FinishCall(reqs, svcs, i, run.outcome,
                                  m1 \o OwnedSeq(i, run.metrics))
            IN [suspended |-> FALSE, metrics |-> fin.metrics, package |-> fin.package]

\* the loop over results: an exception object becomes an error response
BatchResult(out, req, m) ==
    IF out.ok THEN out.val ELSE _create_error_response(out.err, req, m)

BatchInit ==
    /\ pc = "Idle"
    /\ request = DefaultRequest
    /\ svc = CHOOSE o \in BatchOracles : o.doc = "ok"
    /\ performance_metrics = <<>>
    /\ analysis_result = None
    /\ tasks = EmptyDict
    /\ results = EmptyDict
    /\ generation_result = None
    /\ quality_data = EmptyDict
    /\ final_response = None
    /\ exc = <<>>
    /\ package = None
    /\ trace = <<>>
    /\ prev = NoPrev
    /\ b_state = "Idle"
    /\ b_requests = <<>>
    /\ b_svc = <<>>
    /\ b_pc = <<>>
    /\ b_results = <<>>
    /\ b_packages = <<>>
    /\ b_returned = None
    /\ call = NoCall
    /\ ret = None
    /\ graph = NoGraph
    /\ graph_state = NoGraphState

\* batch_generate_async(requests): one coroutine per request, handed to gather
BatchGenerate(reqs, svcs) ==
    /\ b_state = "Idle"
    /\ Len(svcs) = Len(reqs)
    /\ b_requests' = reqs
    /\ b_svc' = svcs
    /\ b_pc' = [i \in 1..Len(reqs) |-> "scheduled"]
    /\ b_results' = [i \in 1..Len(reqs) |-> EmptyDict]
    /\ b_packages' = [i \in 1..Len(reqs) |-> None]
    /\ b_state' = "Gathering"
    /\ UNCHANGED <<coordVars, performance_metrics, b_returned, unitVars, graphVars>>

\* the event loop runs the coroutine of request i for the first time
RequestStart(i) ==
    /\ b_state = "Gathering"
    /\ i \in DOMAIN b_pc
    /\ b_pc[i] = "scheduled"
    /\ LET st == StartCall(b_requests, b_svc, i) IN
         /\ performance_metrics' = st.metrics
         /\ b_pc' = [b_pc EXCEPT ![i] = IF st.suspended THEN "gathering" ELSE "returned"]
         /\ b_packages' = [b_packages EXCEPT
                              ![i] = IF st.suspended THEN None ELSE Return(st.package)]
    /\ UNCHANGED <<coordVars, b_state, b_requests, b_svc, b_results, b_returned,
                   unitVars, graphVars>>

\* task_names, in the order the tasks are created
TaskOrder(req) ==
    <<"questions", "answer_tips">>
        \o (IF req.quality_assurance THEN <<"quality">> ELSE <<>>)

\* the records the tasks of request i append, in the order the tasks run
RECURSIVE TaskRecords(_, _, _)
TaskRecords(i, order, res) ==
    IF order = <<>> THEN <<>>
    ELSE (IF res[Head(order)].ok THEN <<Owned(i, TaskMetric(Head(order)))>> ELSE <<>>)
            \o TaskRecords(i, Tail(order), res)

\* the event loop runs the tasks of request i: each returns (appending its
\* record to whatever list the coordinator holds now) or raises
RequestTasks(i) ==
    /\ b_state = "Gathering"
    /\ i \in DOMAIN b_pc
    /\ b_pc[i] = "gathering"
    /\ DOMAIN b_results[i] = {}
    /\ LET ar == BatchAnalysis(b_requests, b_svc, i).val
           res == [t \in LaunchedTasks(b_requests[i]) |-> RunTask(t, ar, b_svc[i])]
       IN /\ b_results' = [b_results EXCEPT ![i] = res]
          /\ performance_metrics' =
                performance_metrics \o TaskRecords(i, TaskOrder(b_requests[i]), res)
    /\ UNCHANGED <<coordVars, b_state, b_requests, b_svc, b_pc, b_packages,
                   b_returned, unitVars, graphVars>>

\* the gather of request i is complete: its coroutine runs to its return
RequestResume(i) ==
    /\ b_state = "Gathering"
    /\ i \in DOMAIN b_pc
    /\ b_pc[i] = "gathering"
    /\ DOMAIN b_results[i] = LaunchedTasks(b_requests[i])
    /\ LET fin == FinishCall(b_requests, b_svc, i, GatherOutcome(b_results[i]),
                             performance_metrics) IN
         /\ performance_metrics' = fin.metrics
         /\ b_packages' = [b_packages EXCEPT ![i] = Return(fin.package)]
    /\ b_pc' = [b_pc EXCEPT ![i] = "returned"]
    /\ UNCHANGED <<coordVars, b_state, b_requests, b_svc, b_results, b_returned,
                   unitVars, graphVars>>

\* results = await asyncio.gather(*tasks, return_exceptions=True) resumes and
\* processed_results is returned
BatchReturn ==
    /\ b_state = "Gathering"
    /\ \A i \in DOMAIN b_pc : b_pc[i] = "returned"
    /\ b_returned' = [i \in DOMAIN b_packages |->
                         BatchResult(b_packages[i], b_requests[i], performance_metrics)]
    /\ b_state' = "Returned"
    /\ UNCHANGED <<coordVars, performance_metrics, b_requests, b_svc, b_pc,
                   b_results, b_packages, unitVars, graphVars>>

BatchNext ==
    \/ \E n \in 0..MaxBatch :
          \E reqs \in [1..n -> BatchRequests], svcs \in [1..n -> BatchOracles] :
             BatchGenerate(reqs, svcs)
    \/ \E i \in 1..MaxBatch : RequestStart(i)
    \/ \E i \in 1..MaxBatch : RequestTasks(i)
    \/ \E i \in 1..MaxBatch : RequestResume(i)
    \/ BatchReturn

BatchSpec == BatchInit /\ [][BatchNext]_vars

----------------------------------------------------------------------------
(* InterviewAgent: the public entry points and their validation.  Here a     *)
(* role is a string of characters; a missing argument is the empty string    *)
(* or 0, which `not x` treats like None.                                     *)

ExperienceLevels == {"Junior", "Mid", "Senior", "Lead", "Principal"}
InterviewRounds == 1..4

RECURSIVE LStrip(_)
LStrip(str) == IF str # <<>> /\ Head(str) = " " THEN LStrip(Tail(str)) ELSE str

RECURSIVE RStrip(_)
RStrip(str) ==
    IF str # <<>> /\ str[Len(str)] = " " THEN RStrip(SubSeq(str, 1, Len(str) - 1))
    ELSE str

\* str.strip()
Strip(str) == RStrip(LStrip(str))

_validate_inputs(role, level, round_number) ==
    IF role = <<>> THEN Raise("Role is required")
    ELSE IF level = "" THEN Raise("Experience level is required")
    ELSE IF round_number = 0 THEN Raise("Round number is required")
    ELSE IF Len(Strip(role)) < 3 THEN Raise("Role must be at least 3 characters long")
    ELSE Return(TRUE)

\* ExperienceLevel(level), ValueError re-raised
_convert_level(level) ==
    IF level \in ExperienceLevels THEN Return(level)
    ELSE Raise("Invalid experience level")

\* InterviewRound(round_number), ValueError re-raised
_convert_round(round_number) ==
    IF round_number \in InterviewRounds THEN Return(round_number)
    ELSE Raise("Invalid round number")

\* EnhancedInterviewRequest(...): the enum fields are validated, role is any str
EnhancedInterviewRequest(role, level, round_number) ==
    IF level \notin ExperienceLevels \/ round_number \notin InterviewRounds
    THEN Raise("validation error for EnhancedInterviewRequest")
    ELSE Return([role |-> role, level |-> level, round_number |-> round_number,
                 enable_parallel_processing |-> TRUE, quality_assurance |-> TRUE])

\* the coordinator is invoked with the request: the phases start
CoordinatorCalled(req) == Return([coordinator_called |-> TRUE, request |-> req])

\* InterviewAgent.generate_interview_content_async
InterviewAgent_generate_interview_content_async(role, level, round_number, jd, cv) ==
    LET v == _validate_inputs(role, level, round_number)
        lv == _convert_level(level)
        rn == _convert_round(round_number)
        req == EnhancedInterviewRequest(role, lv.val, rn.val)
    IN IF ~v.ok THEN v
       ELSE IF ~lv.ok THEN lv
       ELSE IF ~rn.ok THEN rn
       ELSE IF jd = <<>> THEN Raise("Job description content or file is required")
       ELSE IF cv = <<>> THEN Raise("CV content or file is required")
       ELSE IF ~req.ok THEN req
       ELSE CoordinatorCalled(req.val)

\* a caller of batch_generate_async builds the request object itself; the
\* method hands it to the coordinator as it is
InterviewAgent_batch_generate_async(role, level, round_number) ==
    LET req == EnhancedInterviewRequest(role, level, round_number)
    IN IF ~req.ok THEN req ELSE CoordinatorCalled(req.val)

\* what a public entry point does with the arguments
EntryPoint(entry, role, level, round_number, jd, cv) ==
    CASE entry = "generate_interview_content_async" ->
            InterviewAgent_generate_interview_content_async(role, level, round_number, jd, cv)
      [] entry = "generate_interview_content" ->   \* asyncio.run of the above
            InterviewAgent_generate_interview_content_async(role, level, round_number, jd, cv)
      [] entry = "batch_generate_async" ->
            InterviewAgent_batch_generate_async(role, level, round_number)

EntryPoints == {"generate_interview_content_async", "generate_interview_content",
                "batch_generate_async"}

RoleInputs == UNION { [1..n -> {"a", " "}] : n \in 0..MaxRoleLen }
LevelInputs == ExperienceLevels \cup {"Intern", ""}
RoundInputs == (0..5) \cup {9}
ContentInputs == {<<>>, <<"text">>}

----------------------------------------------------------------------------
(* Components called on their own, with inputs of the caller's choice: one  *)
(* call per behaviour, the components keep nothing between calls.           *)

\* the scores a quality metric is given here
ScoreInputs == {30, 60, 90}

QuestionAt(i) == [question |-> <<"question", ToString(i)>>, type |-> "technical",
                  difficulty |-> "intermediate"]

\* a list of n question dicts
QuestionList(n) == PyList([i \in 1..n |-> QuestionAt(i)])

MetricsOf(scores) == [i \in 1..Len(scores) |-> QualityMetrics(scores[i], scores[i], scores[i], scores[i], scores[i])]

ConsistencyOf(c) ==
    [overall_consistency |-> c, issues |-> <<>>,
     recommendations |-> <<"Content appears consistent">>,
     validation_checks |-> AllChecks(TRUE)]

UnitContext == Context(DefaultRequest)

\* the successful path of _perform_quality_assurance from the metrics on,
\* followed by the formatter: report, payload, package
QualityPipeline(qscores, ascores, c) ==
    LET qm == MetricsOf(qscores)
        am == MetricsOf(ascores)
        cr == ConsistencyOf(c)
        rp == generate_quality_report(qm, am, cr, UnitContext)
        payload == [question_quality |-> OverallScores(qm),
                    answer_quality |-> OverallScores(am),
                    consistency_analysis |-> cr,
                    quality_report |-> rp.val]
    IN IF ~rp.ok THEN rp
       ELSE create_final_output([questions |-> QuestionList(Len(qscores)),
                                 quality_metrics |-> qm],
                                [answer_tips |-> PyList(<<>>)],
                                payload, <<>>, UnitContext,
                                CHOOSE o \in BatchOracles : o.doc = "ok")

----------------------------------------------------------------------------
(* CoordinatorAgent (the sequential coordinator): parsing the reply of the   *)
(* question service.  The reply is the sequence of blocks re.split cuts it   *)
(* into; a block is a question (more than 10 characters, with a first line   *)
(* that is not empty once the list mark is removed) or too short to keep.    *)

\* `return questions[:10]`
ParseLimit == 10

BlockKinds == {"question", "short"}

RECURSIVE KeptBlocks(_, _)
KeptBlocks(blocks, i) ==
    IF i > Len(blocks) THEN <<>>
    ELSE (IF blocks[i] = "question"
          THEN <<[question |-> <<"question", ToString(i)>>, type |-> "technical",
                  difficulty |-> "intermediate"]>>
          ELSE <<>>) \o KeptBlocks(blocks, i + 1)

\* one InterviewQuestion per kept block, the first ten of them; the number of
\* questions asked for is not an argument
_parse_questions(blocks) ==
    LET questions == KeptBlocks(blocks, 1)
    IN SubSeq(questions, 1, Min(Len(questions), ParseLimit))

----------------------------------------------------------------------------

UnitInit ==
    /\ BatchInit

UnitEntryPoint ==
    /\ call.fn = "none"
    /\ \E entry \in EntryPoints, role \in RoleInputs, level \in LevelInputs,
          round_number \in RoundInputs, jd \in ContentInputs, cv \in ContentInputs :
          /\ call' = [fn |-> "entry_point", entry |-> entry, role |-> role,
                      level |-> level, round_number |-> round_number,
                      jd |-> jd, cv |-> cv]
          /\ ret' = EntryPoint(entry, role, level, round_number, jd, cv)
    /\ UNCHANGED <<coordVars, performance_metrics, batchVars, graphVars>>

UnitGenerateAnswerTips ==
    /\ call.fn = "none"
    /\ \E n \in 0..MaxQuestions : \E outcomeAt \in [1..n -> Outcome] :
          /\ call' = [fn |-> "generate_answer_tips", questions |-> QuestionList(n),
                      outcomeAt |-> outcomeAt]
          /\ ret' = generate_answer_tips(QuestionList(n), UnitContext, outcomeAt)
    /\ UNCHANGED <<coordVars, performance_metrics, batchVars, graphVars>>

UnitQualityPipeline ==
    /\ call.fn = "none"
    /\ \E nq \in 0..MaxQuestions, na \in 0..MaxQuestions :
          \E qscores \in [1..nq -> ScoreInputs], ascores \in [1..na -> ScoreInputs],
             c \in ScoreInputs :
             /\ call' = [fn |-> "quality_pipeline", qscores |-> qscores,
                         ascores |-> ascores, consistency |-> c]
             /\ ret' = QualityPipeline(qscores, ascores, c)
    /\ UNCHANGED <<coordVars, performance_metrics, batchVars, graphVars>>

\* CoordinatorAgent._format_final_response for a request of num_questions
\* questions: the reply is parsed into the question records of the response
UnitParseQuestions ==
    /\ call.fn = "none"
    /\ \E num_questions \in 0..MaxQuestions, n \in 0..MaxBlocks :
          \E blocks \in [1..n -> BlockKinds] :
             /\ call' = [fn |-> "_parse_questions", num_questions |-> num_questions,
                         blocks |-> blocks]
             /\ ret' = Return(_parse_questions(blocks))
    /\ UNCHANGED <<coordVars, performance_metrics, batchVars, graphVars>>

\* FormatterAgent._format_questions on n question dicts, each with its
\* quality metrics, for a request of num_questions questions
UnitFormatQuestions ==
    /\ call.fn = "none"
    /\ \E num_questions \in 0..MaxQuestions, n \in 0..MaxQuestions :
          \E scores \in [1..n -> ScoreInputs] :
             /\ call' = [fn |-> "_format_questions", num_questions |-> num_questions,
                         questions |-> QuestionList(n), scores |-> scores]
             /\ ret' = _format_questions([questions |-> QuestionList(n),
                                          quality_metrics |-> MetricsOf(scores)],
                                         UnitContext)
    /\ UNCHANGED <<coordVars, performance_metrics, batchVars, graphVars>>

\* the scores of the payloads handed to _calculate_overall_quality
PayloadScores == {0, 33, 100}

\* a quality payload: empty, or the two score maps with or without the
\* consistency analysis
QualityPayload(qscores, ascores, c, shape) ==
    CASE shape = "empty" -> EmptyDict
      [] shape = "no_consistency" ->
            [question_quality |-> qscores, answer_quality |-> ascores]
      [] shape = "full" ->
            [question_quality |-> qscores, answer_quality |-> ascores,
             consistency_analysis |-> [overall_consistency |-> c]]

PayloadShapes == {"empty", "no_consistency", "full"}

UnitCalculateOverallQuality ==
    /\ call.fn = "none"
    /\ \E nq \in 0..MaxQuestions, na \in 0..MaxQuestions, shape \in PayloadShapes :
          \E qscores \in [1..nq -> PayloadScores], ascores \in [1..na -> PayloadScores],
             c \in PayloadScores :
             /\ call' = [fn |-> "_calculate_overall_quality",
                         payload |-> QualityPayload(qscores, ascores, c, shape)]
             /\ ret' = Return(_calculate_overall_quality(
                                 QualityPayload(qscores, ascores, c, shape)))
    /\ UNCHANGED <<coordVars, performance_metrics, batchVars, graphVars>>

\* QualityAssuranceAgent.generate_quality_report on metrics of the caller's
\* choice (an empty list included)
UnitGenerateQualityReport ==
    /\ call.fn = "none"
    /\ \E nq \in 0..MaxQuestions, na \in 0..MaxQuestions :
          \E qscores \in [1..nq -> PayloadScores], ascores \in [1..na -> PayloadScores],
             c \in PayloadScores :
             /\ call' = [fn |-> "generate_quality_report", qscores |-> qscores,
                         ascores |-> ascores, consistency |-> c]
             /\ ret' = generate_quality_report(MetricsOf(qscores), MetricsOf(ascores),
                                               ConsistencyOf(c), UnitContext)
    /\ UNCHANGED <<coordVars, performance_metrics, batchVars, graphVars>>

\* a list of n answer-tip dicts, the tip for question i at index i
TipList(n) == PyList([i \in 1..n |-> AnswerTip(QuestionAt(i), UnitContext.role, "ok")])

UnitAssessQuestionsQuality ==
    /\ call.fn = "none"
    /\ \E n \in 0..MaxQuestions : \E outcomeAt \in [1..n -> Outcome] :
          /\ call' = [fn |-> "assess_questions_quality", questions |-> QuestionList(n),
                      outcomeAt |-> outcomeAt]
          /\ ret' = assess_questions_quality(QuestionList(n), UnitContext, outcomeAt)
    /\ UNCHANGED <<coordVars, performance_metrics, batchVars, graphVars>>

\* na tips assessed alongside nq questions; a service call is made for each
\* pair the loop reaches
UnitAssessAnswersQuality ==
    /\ call.fn = "none"
    /\ \E na \in 0..MaxQuestions, nq \in 0..MaxQuestions :
          \E outcomeAt \in [1..Min(na, nq) -> Outcome] :
             /\ call' = [fn |-> "assess_answers_quality", answers |-> TipList(na),
                         questions |-> QuestionList(nq), outcomeAt |-> outcomeAt]
             /\ ret' = assess_answers_quality(TipList(na), QuestionList(nq),
                                              UnitContext, outcomeAt)
    /\ UNCHANGED <<coordVars, performance_metrics, batchVars, graphVars>>

\* the service answering every call, but for the consistency call
ServiceWith(cons) == [CHOOSE o \in BatchOracles : o.doc = "ok" EXCEPT !.cons = cons]

\* validate_consistency on a list of question dicts, or on the questions as
\* one string
UnitValidateConsistency ==
    /\ call.fn = "none"
    /\ \E n \in 0..MaxQuestions, cons \in Outcome :
          \E questions \in {QuestionList(n), PyStr([i \in 1..n |-> "text"])} :
             /\ call' = [fn |-> "validate_consistency", questions |-> questions,
                         cons |-> cons]
             /\ ret' = validate_consistency(questions, TipList(n), UnitContext,
                                            ServiceWith(cons))
    /\ UNCHANGED <<coordVars, performance_metrics, batchVars, graphVars>>

\* the questions part of a generation result: the question dicts, with or
\* without per-record quality metrics
QuestionsResult(n, with_metrics) ==
    IF with_metrics
    THEN [questions |-> QuestionList(n), status |-> "completed",
          quality_metrics |-> MetricsOf([i \in 1..n |-> 90])]
    ELSE [questions |-> QuestionList(n), status |-> "completed"]

\* the tips part: under the key the coordinator writes ('answer_tips'), or
\* under the key the formatter reads ('answers') with quality metrics
AnswerTipsResult(n, key) ==
    IF key = "answer_tips"
    THEN [answer_tips |-> TipList(n), status |-> "completed"]
    ELSE [answers |-> TipList(n), status |-> "completed",
          quality_metrics |-> MetricsOf([i \in 1..n |-> 90])]

\* FormatterAgent.create_final_output on a generation result with nq questions
\* and nt tips, the service answering every call
UnitCreateFinalOutput ==
    /\ call.fn = "none"
    /\ \E nq \in 0..MaxQuestions, nt \in 0..MaxQuestions, with_metrics \in BOOLEAN,
          key \in {"answer_tips", "answers"} :
          /\ call' = [fn |-> "create_final_output",
                      questions_result |-> QuestionsResult(nq, with_metrics),
                      answer_tips_result |-> AnswerTipsResult(nt, key)]
          /\ ret' = create_final_output(QuestionsResult(nq, with_metrics),
                                        AnswerTipsResult(nt, key), EmptyDict, <<>>,
                                        UnitContext, ServiceWith("ok"))
    /\ UNCHANGED <<coordVars, performance_metrics, batchVars, graphVars>>

UnitNext ==
    \/ UnitCreateFinalOutput
    \/ UnitValidateConsistency
    \/ UnitAssessQuestionsQuality
    \/ UnitAssessAnswersQuality
    \/ UnitGenerateQualityReport
    \/ UnitCalculateOverallQuality
    \/ UnitEntryPoint
    \/ UnitGenerateAnswerTips
    \/ UnitQualityPipeline
    \/ UnitParseQuestions
    \/ UnitFormatQuestions

UnitSpec == UnitInit /\ [][UnitNext]_vars

----------------------------------------------------------------------------
(* The graph orchestration variant: conditions.py, create_interview_graph,  *)
(* create_skill_analysis_graph.  The graphs are run by the GraphBuilder     *)
(* library: the entry point runs first; when a node finishes, its result is *)
(* stored in state.results under the node's name and each edge leaving it   *)
(* is traversed when the edge has no condition or its condition holds on    *)
(* the state; a node that raises ends the run.                              *)

Edge(from_node, to_node, condition) ==
    [from_node |-> from_node, to_node |-> to_node, condition |-> condition]

\* the text of a node's result, as far as the conditions can tell results apart
ResultTexts == {<<"successful">>, <<"unsuccessful">>}

NodeResult(status, text) == [status |-> status, result |-> text]

\* the weaker reading: one analyzer's result is enough
IsAnalyzerDoneEither(state) ==
    LET jd_result == DictGet(state.results, "JD_ANALYZER", None)
        cv_result == DictGet(state.results, "CV_ANALYZER", None)
    IN jd_result # None \/ cv_result # None

is_analyzer_done(state) ==
    LET jd_result == DictGet(state.results, "JD_ANALYZER", None)
        cv_result == DictGet(state.results, "CV_ANALYZER", None)
    IN jd_result # None /\ cv_result # None

is_skill_matching_done(state) ==
    LET skill_matcher_result == DictGet(state.results, "SKILL_MATCHER", None)
    IN skill_matcher_result # None

create_interview_graph ==
    [nodes |-> {"ORCHESTRATOR", "JD_ANALYZER", "CV_ANALYZER", "SKILL_MATCHER",
                "QUESTION_GENERATOR"},
     edges |-> {Edge("ORCHESTRATOR", "JD_ANALYZER", "none"),
                Edge("ORCHESTRATOR", "CV_ANALYZER", "none"),
                Edge("JD_ANALYZER", "SKILL_MATCHER", "is_analyzer_done"),
                Edge("CV_ANALYZER", "SKILL_MATCHER", "is_analyzer_done"),
                Edge("SKILL_MATCHER", "QUESTION_GENERATOR", "is_skill_matching_done")},
     entry_points |-> {"ORCHESTRATOR"}]

create_skill_analysis_graph ==
    [nodes |-> {"SKILL_ORCHESTRATOR", "JD_ANALYZER", "CV_ANALYZER", "SKILL_MATCHER"},
     edges |-> {Edge("SKILL_ORCHESTRATOR", "JD_ANALYZER", "none"),
                Edge("SKILL_ORCHESTRATOR", "CV_ANALYZER", "none"),
                Edge("JD_ANALYZER", "SKILL_MATCHER", "is_analyzer_done"),
                Edge("CV_ANALYZER", "SKILL_MATCHER", "is_analyzer_done")},
     entry_points |-> {"SKILL_ORCHESTRATOR"}]

\* the condition= argument of add_edge, applied to the state
should_traverse(edge, state) ==
    CASE edge.condition = "none" -> TRUE
      [] edge.condition = "is_analyzer_done" -> is_analyzer_done(state)
      [] edge.condition = "is_skill_matching_done" -> is_skill_matching_done(state)

\* nodes that have started: running now, or finished
StartedNodes(state) ==
    state.executing \cup {state.execution_order[i] : i \in 1..Len(state.execution_order)}

GraphInit ==
    /\ BatchInit

\* result = interview_graph(content_blocks): a fresh state, the entry point ready
GraphInvoke ==
    /\ graph = NoGraph
    /\ \E g \in {create_interview_graph, create_skill_analysis_graph} :
          /\ graph' = g
          /\ graph_state' = [status |-> "executing", results |-> EmptyDict,
                             ready |-> g.entry_points, executing |-> {},
                             execution_order |-> <<>>]
    /\ UNCHANGED <<coordVars, performance_metrics, batchVars, unitVars>>

\* a ready node's agent is started
NodeStart ==
    /\ graph_state.status = "executing"
    /\ \E n \in graph_state.ready :
          graph_state' = [graph_state EXCEPT !.ready = @ \ {n},
                                             !.executing = @ \cup {n}]
    /\ UNCHANGED <<graph, coordVars, performance_metrics, batchVars, unitVars>>

\* a node's agent returns: its result is stored, the edges leaving it are tried
NodeComplete ==
    /\ graph_state.status = "executing"
    /\ \E n \in graph_state.executing, text \in ResultTexts :
          LET stored == [graph_state EXCEPT
                            !.results = (n :> NodeResult("completed", text)) @@ @,
                            !.executing = @ \ {n},
                            !.execution_order = Append(@, n)]
              newly_ready == {e.to_node : e \in {d \in graph.edges :
                                 /\ d.from_node = n
                                 /\ d.to_node \notin StartedNodes(stored) \cup stored.ready
                                 /\ should_traverse(d, stored)}}
          IN graph_state' = [stored EXCEPT !.ready = @ \cup newly_ready]
    /\ UNCHANGED <<graph, coordVars, performance_metrics, batchVars, unitVars>>

\* a node's agent raises: the run ends, nothing else is started
NodeFail ==
    /\ graph_state.status = "executing"
    /\ \E n \in graph_state.executing :
          graph_state' = [graph_state EXCEPT !.status = "failed",
                                             !.executing = @ \ {n}]
    /\ UNCHANGED <<graph, coordVars, performance_metrics, batchVars, unitVars>>

\* nothing is running and nothing is ready: the call returns the GraphResult
GraphFinish ==
    /\ graph_state.status = "executing"
    /\ graph_state.ready = {}
    /\ graph_state.executing = {}
    /\ graph_state' = [graph_state EXCEPT !.status = "completed"]
    /\ UNCHANGED <<graph, coordVars, performance_metrics, batchVars, unitVars>>

GraphNext ==
    \/ GraphInvoke
    \/ NodeStart
    \/ NodeComplete
    \/ NodeFail
    \/ GraphFinish

GraphSpec == GraphInit /\ [][GraphNext]_vars

----------------------------------------------------------------------------
(* Properties *)

Terminal == pc \in {"Done", "Failed"}

QAOps == {"assess_questions_quality", "assess_answers_quality",
          "validate_consistency", "generate_quality_report"}

Started(c) == \E i \in 1..Len(trace) : trace[i] = Ev(c, "start")
RaisedIn(c) == \E i \in 1..Len(trace) : trace[i] = Ev(c, "raised")
QAStarted == \E c \in QAOps : Started(c)
QARaised == \E c \in QAOps : RaisedIn(c)

\* component c's invocation that starts at position k is over before position i
OverBefore(k, i) ==
    \E j \in (k + 1)..(i - 1) :
        trace[j][1] = trace[k][1] /\ trace[j][2] \in {"end", "raised"}

IsPrefix(a, b) == Len(a) <= Len(b) /\ SubSeq(b, 1, Len(a)) = a

\* sub occurs in text as a contiguous run of tokens
Contains(text, sub) ==
    \E k \in 0..(Len(text) - Len(sub)) : SubSeq(text, k + 1, k + Len(sub)) = sub

\* C1: the phases are entered in order: no Generating task starts before the
\* document analysis has returned, no QualityAssurance operation starts before
\* every launched Generating task has finished, and the formatter does not
\* start before every QualityAssurance operation is over.
C1_PhaseOrder ==
    /\ \A i \in 1..Len(trace) :
         /\ (trace[i][1] \in TaskNames /\ trace[i][2] = "start")
               => \E j \in 1..(i - 1) : trace[j] = Ev("document_processor", "end")
         /\ (trace[i][1] \in QAOps \cup {"formatter"} /\ trace[i][2] = "start")
               => \A k \in 1..Len(trace) :
                     (trace[k][1] \in TaskNames /\ trace[k][2] = "start")
                        => (k < i /\ OverBefore(k, i))
         /\ trace[i] = Ev("formatter", "start")
               => \A k \in 1..Len(trace) :
                     (trace[k][1] \in QAOps /\ trace[k][2] = "start")
                        => (k < i /\ OverBefore(k, i))
    /\ (QAStarted \/ Started("formatter"))
          => \A t \in DOMAIN tasks : tasks[t] = "finished"
    /\ pc \in {"Gathering", "Finalizing", "Formatting", "Returning", "Done"}
          => \E j \in 1..Len(trace) : trace[j] = Ev("document_processor", "end")

C1_Witness ==
    /\ pc = "Done"
    /\ request.enable_parallel_processing
    /\ request.quality_assurance
    /\ \A t \in TaskNames : Started(t)
    /\ QAStarted
    /\ Started("formatter")

\* C2: on every path the returned package has questions and answer_tips lists,
\* an overall_quality_score within [0,1] and at least one processing_metrics
\* entry.
C2_PackageShape ==
    Terminal =>
        /\ Len(package.questions) >= 0
        /\ Len(package.answer_tips) >= 0
        /\ package.overall_quality_score \in 0..100
        /\ Len(package.processing_metrics) >= 1

\* C3: when the question-generation call raises, the returned package still
\* holds at least one question record.
C3_AtLeastOneQuestion ==
    (Terminal /\ svc.qgen = "fail") => Len(package.questions) >= 1

\* C4: when document analysis fails the run goes straight to Failed: no other
\* component is invoked, no task is created, and the caller gets the error
\* package carrying the document-analysis failure.
C4_DocumentFailureIsFatal ==
    (svc.doc = "fail" /\ pc \notin {"Idle", "AnalyzingDocuments"}) =>
        /\ pc \in {"Raising", "Failed"}
        /\ \A i \in 1..Len(trace) : trace[i][1] = "document_processor"
        /\ DOMAIN tasks = {}
        /\ Contains(exc, <<"Document analysis failed: ">>)
        /\ pc = "Failed" =>
              /\ DictGet(package.generation_metadata, "error", FALSE)
              /\ package.generation_metadata.error_message = exc

C4_Witness == pc = "Failed" /\ svc.doc = "fail"

C6_ParallelIsolation ==
    (request.enable_parallel_processing
       /\ pc \notin {"Idle", "AnalyzingDocuments", "Generating", "Gathering"}
       /\ svc.doc = "ok") =>
        /\ pc \in {"Finalizing", "Formatting", "Returning", "Done"}
              \/ RaisedIn("formatter")
        /\ DOMAIN tasks = LaunchedTasks(request)
        /\ DOMAIN results = LaunchedTasks(request)
        /\ DOMAIN generation_result.success_status = LaunchedTasks(request)
        /\ \A t \in LaunchedTasks(request) :
              /\ tasks[t] = "finished"
              /\ generation_result.success_status[t] = results[t].ok
              /\ LET used == CASE t = "questions" -> generation_result.questions_result
                               [] t = "answer_tips" -> generation_result.answer_tips_result
                               [] t = "quality" -> generation_result.quality_result
                 IN IF RaisedIn(t) THEN ~results[t].ok /\ used = TaskFallback(t)
                    ELSE results[t].ok /\ used = results[t].val

C6_Witness ==
    /\ pc = "Finalizing"
    /\ request.enable_parallel_processing
    /\ RaisedIn("questions") /\ RaisedIn("answer_tips")
    /\ "quality" \in DOMAIN results /\ results["quality"].ok

\* C7: with the same request and the same service answers, a parallel run and
\* a sequential run return the same questions and answer_tips.
C7_ParallelSequentialEquivalence ==
    (Terminal /\ prev.valid
       /\ prev.request = [request EXCEPT !.enable_parallel_processing = ~@]) =>
        /\ package.questions = prev.questions
        /\ package.answer_tips = prev.answer_tips

\* C8: a failure of question generation or of answer-tip generation never
\* takes the coordinator to Failed, in either mode.
C8_GenerationFailureRecoverable ==
    ((RaisedIn("questions") \/ RaisedIn("answer_tips")) /\ ~Started("formatter"))
        => pc \notin {"Raising", "Failed"}

\* C9: the QualityAssurance operations run if and only if the request enables
\* quality assurance; when it is disabled none of them is invoked and the
\* formatter receives the empty payload.
C9_QualityAssuranceGate ==
    /\ QAStarted => request.quality_assurance
    /\ pc \in {"Formatting", "Returning", "Done"} =>
          /\ request.quality_assurance => QAStarted
          /\ ~request.quality_assurance => DOMAIN quality_data = {}
    /\ (pc = "Done" /\ ~request.quality_assurance) => DOMAIN package.quality_report = {}

C9_Witness == pc = "Done" /\ ~request.quality_assurance /\ Started("formatter")

\* C10: an exception raised by a QualityAssurance operation is handled inside
\* the phase: the payload becomes the fixed fallback (question, answer and
\* consistency scores all 0.7) and the run continues to Formatting.
C10_QualityFailureFallsBack ==
    QARaised =>
        /\ pc \in {"Formatting", "Returning", "Done"} \/ RaisedIn("formatter")
        /\ quality_data = _get_fallback_quality_data
        /\ \A i \in 1..Len(quality_data.question_quality) :
              quality_data.question_quality[i] = 70
        /\ \A i \in 1..Len(quality_data.answer_quality) :
              quality_data.answer_quality[i] = 70
        /\ quality_data.consistency_analysis.overall_consistency = 70

C10_Witness ==
    /\ pc = "Done"
    /\ RaisedIn("generate_quality_report")
    /\ package.quality_report = _get_fallback_quality_data

\* C11: an exception raised by create_final_output takes the coordinator to
\* Failed: no formatted package is kept, nothing is raised to the caller, and
\* the package returned is the error package carrying "Finalization failed".
C11_FormatterFailureIsFatal ==
    RaisedIn("formatter") =>
        /\ pc \in {"Raising", "Failed"}
        /\ final_response = None
        /\ Contains(exc, <<"Finalization failed: ">>)
        /\ pc = "Failed" =>
              /\ package = _create_error_response(exc, request, performance_metrics)
              /\ DictGet(package.generation_metadata, "error", FALSE)
              /\ Len(package.questions) = 1

C11_Witness == pc = "Failed" /\ RaisedIn("formatter") /\ svc.fmt = "fail"

TaskStep == pc = "Gathering" /\ pc' = "Gathering" /\ tasks' # tasks

\* C13 as claimed: a step of a concurrent task writes to nothing the tasks
\* have in common: besides the task's own state and result, every structure
\* of the coordinator is left as it was.
C13_TasksWriteNothingShared ==
    [][TaskStep =>
          UNCHANGED <<request, performance_metrics, analysis_result,
                      generation_result, quality_data, final_response, exc,
                      package>>]_vars

\* C13 amended: a step of a concurrent task reads the analysis and the context
\* and leaves them, and the results of the other tasks, untouched; its result
\* is a function of the analysis and context alone; the one structure the
\* tasks share and write is the metrics list, to which a task that returns
\* appends exactly its own record.
C13_TasksShareOnlyMetrics ==
    [][TaskStep =>
          /\ UNCHANGED <<request, analysis_result, generation_result,
                         quality_data, final_response, exc, package>>
          /\ \A n \in DOMAIN results : results'[n] = results[n]
          /\ \A n \in DOMAIN results' \ DOMAIN results :
                /\ tasks[n] = "running" /\ tasks'[n] = "finished"
                /\ results'[n] = RunTask(n, analysis_result, svc)
                /\ performance_metrics' =
                      IF results'[n].ok
                      THEN Append(performance_metrics, TaskMetric(n))
                      ELSE performance_metrics
          /\ DOMAIN results' = DOMAIN results
                => performance_metrics' = performance_metrics]_vars

\* two tasks overlap: one has returned and appended its record while the
\* other is still running
C13_Witness ==
    /\ pc = "Gathering"
    /\ "quality" \in DOMAIN tasks
    /\ tasks["quality"] = "finished" /\ results["quality"].ok
    /\ tasks["questions"] = "running"
    /\ performance_metrics[Len(performance_metrics)] = TaskMetric("quality")

\* request i of the batch ended in Failed
BatchFailed(i) == DictGet(b_returned[i].generation_metadata, "error", FALSE)

\* C14: in a batch the processing_metrics of each returned package holds only
\* records produced by the request the package answers: no other request has
\* reset, replaced or appended to its list.
C14_MetricsPerRequest ==
    b_state = "Returned" =>
        \A i \in DOMAIN b_returned :
            \A k \in 1..Len(b_returned[i].processing_metrics) :
                b_returned[i].processing_metrics[k].owner = i

\* the package request i is answered with when no other call runs on the
\* coordinator between its first line and its return
SoloPackage(reqs, svcs, i) ==
    LET st == StartCall(reqs, svcs, i)
        ar == BatchAnalysis(reqs, svcs, i).val
        res == [t \in LaunchedTasks(reqs[i]) |-> RunTask(t, ar, svcs[i])]
    IN IF ~st.suspended THEN st.package
       ELSE FinishCall(reqs, svcs, i, GatherOutcome(res),
                       st.metrics \o TaskRecords(i, TaskOrder(reqs[i]), res)).package

\* the parts of C15 the shared list does not touch: as many packages as
\* requests, in the order of the requests, and at the place of a request whose
\* generation fails its error package
BatchOnePackageEach ==
    b_state = "Returned" =>
        /\ Len(b_returned) = Len(b_requests)
        /\ \A i \in DOMAIN b_returned :
              /\ BatchFailed(i) <=> DictGet(SoloPackage(b_requests, b_svc, i).generation_metadata,
                                            "error", FALSE)
              /\ b_returned[i].questions = SoloPackage(b_requests, b_svc, i).questions
              /\ b_returned[i].answer_tips = SoloPackage(b_requests, b_svc, i).answer_tips

\* C15: a batch of N requests returns N packages, one per request and in
\* their order; a request whose generation fails is answered with its error
\* package; and the failure of one request leaves the packages of the others
\* what they are without it.
C15_BatchOnePackagePerRequest ==
    /\ BatchOnePackageEach
    /\ b_state = "Returned" =>
          \A i \in DOMAIN b_returned :
              (\E j \in DOMAIN b_returned : j # i /\ BatchFailed(j))
                  => b_returned[i] = SoloPackage(b_requests, b_svc, i)

\* the phases the current call has entered
PhasesEntered ==
    (IF Started("document_processor") THEN {"AnalyzingDocuments"} ELSE {})
      \cup (IF \E t \in TaskNames : Started(t) THEN {"Generating"} ELSE {})
      \cup (IF QAStarted THEN {"AssuringQuality"} ELSE {})
      \cup (IF Started("formatter") THEN {"Formatting"} ELSE {})

\* C16: when the call has returned, the list holds exactly one record for
\* each phase the coordinator went through, and every record accumulated
\* during the run is in the processing_metrics of the package returned, in
\* Done as in Failed.
C16_AllRecordsInPackage ==
    Terminal =>
        /\ package.processing_metrics = performance_metrics
        /\ Len(performance_metrics) = Cardinality(PhasesEntered)

\* the half of C16 that does hold: in Failed the package has every record
RecordsInFailedPackage ==
    pc = "Failed" => package.processing_metrics = performance_metrics

\* the arguments of the entry-point call are ones the contract rejects
InvalidArguments ==
    \/ call.level \notin ExperienceLevels
    \/ call.round_number \notin InterviewRounds
    \/ Len(call.role) < 3

\* C17: a request with a level outside the five, a round outside 1..4 or a
\* role shorter than 3 characters is rejected (the call raises, the
\* coordinator is not invoked) through every public entry point: the async
\* one, the sync one and the batch one.
C17_InvalidRequestsRejected ==
    (call.fn = "entry_point" /\ InvalidArguments) => ~ret.ok

\* the part of C17 that does hold: the two single-request entry points
SingleEntryRejects ==
    (call.fn = "entry_point" /\ call.entry # "batch_generate_async" /\ InvalidArguments)
        => ~ret.ok

\* and the batch entry point rejects an unknown level or round
BatchEntryRejectsEnums ==
    (call.fn = "entry_point"
       /\ (call.level \notin ExperienceLevels \/ call.round_number \notin InterviewRounds))
        => ~ret.ok

\* the value returned to the caller is a response package
PackageReturned ==
    /\ DOMAIN package = DOMAIN _create_error_response(<<>>, request, <<>>)
    /\ package.overall_quality_score \in 0..100

\* C18: every call to generate_interview_content_async ends in Done or Failed
\* with a package returned to the caller; whatever is raised inside a phase
\* (the call is then in Raising) is turned into the error package, and the
\* call is never left in a phase.
C18_CallTerminates ==
    /\ (pc = "AnalyzingDocuments") ~> Terminal
    /\ (pc = "Raising") ~> (pc = "Failed")
    /\ [](Terminal => PackageReturned)

C18_Witness ==
    /\ pc = "Failed"
    /\ prev.valid /\ prev.state = "Failed"
    /\ ~request.enable_parallel_processing
    /\ RaisedIn("questions")
    /\ PackageReturned

\* the call is the quality pipeline on avg_question = 0.9, avg_tip = 0.6,
\* consistency = 0.3 and it returned a package
SamplePipelineRun ==
    /\ call.fn = "quality_pipeline"
    /\ call.qscores = <<90>> /\ call.ascores = <<60>> /\ call.consistency = 30
    /\ ret.ok

\* the QualityAssessmentReport inside the package's quality payload
ReportInPackage == ret.val.quality_report.quality_report

\* C19: on a successful run with quality assurance the package carries the
\* assessor's equal-thirds overall value and the formatter's 0.4/0.4/0.2
\* overall value as two separate values: 0.6 and 0.66 for the sample input.
C19_BothOverallValues ==
    SamplePipelineRun =>
        /\ ret.val.overall_quality_score = 66
        /\ "overall_quality" \in DOMAIN ReportInPackage
        /\ ReportInPackage.overall_quality = 60

\* what the package does carry for the sample input: the weighted value as a
\* number, and of the equal-thirds value only the label it falls under
WeightedValueAndLabelOnly ==
    SamplePipelineRun =>
        /\ ret.val.overall_quality_score = 66
        /\ DOMAIN ReportInPackage =
              {"overall_assessment", "question_quality", "answer_quality",
               "consistency_analysis", "improvement_suggestions", "validation_results"}
        /\ ReportInPackage.overall_assessment
              = "Acceptable quality - Some improvements needed"
        /\ DOMAIN ret.val.quality_report =
              {"question_quality", "answer_quality", "consistency_analysis",
               "quality_report"}

\* the questions handed to generate_answer_tips and what each service call did
TipQuestions == call.questions.items
TipOutcome(i) == call.outcomeAt[i]

\* what the call returns for item i when no service call fails
TipWithoutFailures(i) ==
    generate_answer_tips(call.questions, UnitContext,
                         [j \in DOMAIN TipQuestions |-> "ok"]).val[i]

\* C20: generate_answer_tips returns one tip record per input question, in
\* input order; the record at index i is the fallback tip exactly when the
\* service call for question i failed; and a failure at one index neither ends
\* the call nor changes the record at any other index.
C20_PerQuestionFallback ==
    call.fn = "generate_answer_tips" =>
        /\ ret.ok
        /\ Len(ret.val) = Len(TipQuestions)
        /\ \A i \in DOMAIN TipQuestions :
              /\ ret.val[i].question = TipQuestions[i].question
              /\ (ret.val[i].evaluation_tips = FallbackTipText(UnitContext.role))
                    <=> (TipOutcome(i) = "fail")
              /\ TipOutcome(i) = "ok" => ret.val[i] = TipWithoutFailures(i)

\* three questions, the service failing for the middle one only
C20_Witness ==
    /\ call.fn = "generate_answer_tips"
    /\ Len(TipQuestions) = 3
    /\ TipOutcome(1) = "ok" /\ TipOutcome(2) = "fail" /\ TipOutcome(3) = "ok"
    /\ ret.ok /\ Len(ret.val) = 3
    /\ ret.val[2].evaluation_tips = FallbackTipText(UnitContext.role)
    /\ ret.val[3].evaluation_tips # FallbackTipText(UnitContext.role)

\* a call that turns generated content into question records
ProducesQuestions == call.fn \in {"_parse_questions", "_format_questions"} /\ ret.ok

\* C21: the number of question records produced for a request never exceeds
\* the number of questions the request asks for (what is generated beyond it
\* is cut off).
C21_AtMostCountQuestions ==
    ProducesQuestions => Len(ret.val) <= call.num_questions

\* what the code does instead: the parser keeps every question block up to a
\* fixed ten, the formatter every question that has quality metrics
QuestionsKeptWhateverTheCount ==
    /\ (call.fn = "_parse_questions" /\ ret.ok) =>
          Len(ret.val) = Min(Cardinality({i \in DOMAIN call.blocks :
                                           call.blocks[i] = "question"}), ParseLimit)
    /\ (call.fn = "_format_questions" /\ ret.ok) =>
          Len(ret.val) = Len(call.questions.items)

\* _calculate_overall_quality was called on a payload with both score maps
\* non-empty and a consistency score
ScoredPayload ==
    /\ call.fn = "_calculate_overall_quality"
    /\ "consistency_analysis" \in DOMAIN call.payload
    /\ Len(call.payload.question_quality) > 0
    /\ Len(call.payload.answer_quality) > 0

\* 100 * lq * la * (0.4 avg_q + 0.4 avg_a + 0.2 c), the scores in hundredths
WeightedTimes(p) ==
    40 * SumSeq(p.question_quality) * Len(p.answer_quality)
      + 40 * SumSeq(p.answer_quality) * Len(p.question_quality)
      + 20 * p.consistency_analysis.overall_consistency
           * Len(p.question_quality) * Len(p.answer_quality)

Abs(x) == IF x < 0 THEN -x ELSE x

\* C22: for a payload whose question and answer score maps are non-empty,
\* _calculate_overall_quality returns 0.4 avg(question scores) + 0.4
\* avg(answer scores) + 0.2 consistency to two decimals (within half a
\* hundredth), and the result lies in [0,1] when every score does.
C22_WeightedOverall ==
    ScoredPayload =>
        LET p == call.payload
            d == 100 * Len(p.question_quality) * Len(p.answer_quality)
        IN /\ 2 * Abs(ret.val * d - WeightedTimes(p)) <= d
           /\ ret.val \in 0..100

\* a payload whose weighted value is not a whole number of hundredths, and
\* differs from the mean of the three parts
C22_Witness ==
    /\ ScoredPayload
    /\ Len(call.payload.question_quality) = 2
    /\ WeightedTimes(call.payload)
          % (100 * Len(call.payload.question_quality) * Len(call.payload.answer_quality)) # 0
    /\ ret.val # OverallQualityEqualThirds(call.payload)

\* generate_quality_report returned a report
ReportReturned == call.fn = "generate_quality_report" /\ ret.ok

\* 3 * lq * la * overall and 3 * lq * la, overall being the mean of the
\* average question score, the average answer score and the consistency
EqualThirdsNum ==
    SumSeq(call.qscores) * Len(call.ascores) + SumSeq(call.ascores) * Len(call.qscores)
      + call.consistency * Len(call.qscores) * Len(call.ascores)
EqualThirdsDen == 3 * Len(call.qscores) * Len(call.ascores)

\* the band of the five-band scale the overall value falls in
ScaleBand ==
    IF EqualThirdsNum >= 90 * EqualThirdsDen THEN "excellent"
    ELSE IF EqualThirdsNum >= 70 * EqualThirdsDen THEN "good"
    ELSE IF EqualThirdsNum >= 50 * EqualThirdsDen THEN "acceptable"
    ELSE IF EqualThirdsNum >= 30 * EqualThirdsDen THEN "below-standard"
    ELSE "poor"

\* the band a label of the report stands for
LabelBand(label) ==
    CASE label = "Excellent quality - Ready for immediate use" -> "excellent"
      [] label = "Good quality - Minor improvements recommended" -> "good"
      [] label = "Acceptable quality - Some improvements needed" -> "acceptable"
      [] label = "Below standard - Significant improvements required" -> "below-standard"
      [] OTHER -> "poor"

\* C23: the report's label is the band of the five-band scale in which
\* overall = (avg question + avg tip + consistency) / 3 lies: excellent from
\* 0.9, good from 0.7, acceptable from 0.5, below-standard from 0.3, poor
\* below 0.3.
C23_FiveBandLabel ==
    ReportReturned => LabelBand(ret.val.overall_assessment) = ScaleBand

\* the bands the code does tell apart, from the same overall value
FourBandLabel ==
    ReportReturned =>
        LabelBand(ret.val.overall_assessment) =
            IF ScaleBand = "poor" THEN "below-standard" ELSE ScaleBand

ScoresInRange(m) ==
    /\ m.relevance_score \in 0..100 /\ m.clarity_score \in 0..100
    /\ m.completeness_score \in 0..100 /\ m.consistency_score \in 0..100
    /\ m.overall_score \in 0..100

\* the metrics returned are one per item of `items`, the all-0.5 default
\* exactly at the items whose service call failed, in range elsewhere
OneMetricPerItem(items) ==
    /\ ret.ok
    /\ Len(ret.val) = Len(items)
    /\ \A i \in DOMAIN items :
          /\ i \in DOMAIN call.outcomeAt
          /\ (ret.val[i] = DefaultItemMetrics) <=> (call.outcomeAt[i] = "fail")
          /\ call.outcomeAt[i] = "ok" => ScoresInRange(ret.val[i])

\* C24: assess_questions_quality returns one QualityMetrics per input
\* question and assess_answers_quality one per input tip, however many
\* questions are passed alongside, in input order; entry i is the all-0.5
\* default exactly when the service call for item i failed, the other entries
\* are within [0,1], and a failure never ends the loop.
C24_OneMetricPerItem ==
    /\ call.fn = "assess_questions_quality" => OneMetricPerItem(call.questions.items)
    /\ call.fn = "assess_answers_quality" => OneMetricPerItem(call.answers.items)

\* the part of C24 that holds: the questions, and the tips when at least as
\* many questions come with them
OneMetricPerQuestionOrPair ==
    /\ call.fn = "assess_questions_quality" => OneMetricPerItem(call.questions.items)
    /\ (call.fn = "assess_answers_quality"
          /\ Len(call.questions.items) >= Len(call.answers.items))
            => OneMetricPerItem(call.answers.items)
    /\ call.fn = "assess_answers_quality" =>
            Len(ret.val) = Min(Len(call.answers.items), Len(call.questions.items))

\* validate_consistency made its service call and the call failed
ConsistencyCallFailed ==
    /\ call.fn = "validate_consistency"
    /\ call.cons = "fail"
    /\ (IterLen(call.questions) = 0 \/ ItemsAreDicts(call.questions))

\* C25: when the service call inside validate_consistency fails the operation
\* does not raise; it returns overall_consistency 0.5, an issues list with an
\* entry naming the failure, and all six per-check flags false.
C25_ConsistencyFailureReport ==
    ConsistencyCallFailed =>
        /\ ret.ok
        /\ ret.val.overall_consistency = 50
        /\ \E i \in DOMAIN ret.val.issues :
              \E k \in 1..Len(ret.val.issues[i]) :
                 SubSeq(ret.val.issues[i], k, Len(ret.val.issues[i])) = ServiceErr
        /\ DOMAIN ret.val.validation_checks =
              {"experience_level", "role_relevance", "round_focus",
               "difficulty_balance", "question_variety", "answer_alignment"}
        /\ \A c \in DOMAIN ret.val.validation_checks : ~ret.val.validation_checks[c]

C25_Witness ==
    /\ ConsistencyCallFailed
    /\ Len(call.questions.items) = 2
    /\ ret.ok
    /\ ret.val.recommendations = <<"Manual review recommended">>

\* the guidance call or the evaluation-framework call of the formatter fails
GuidanceCallFails == svc.guid = "fail" \/ svc.fw = "fail"

\* C26: a failure of the interviewer-guidance or of the evaluation-framework
\* call never fails the Formatting phase: the formatter puts the default
\* guidance and the default framework in their place and still returns a
\* complete package.
C26_GuidanceFailureHarmless ==
    GuidanceCallFails =>
        /\ RaisedIn("formatter") => svc.fmt = "fail"
        /\ pc = "Done" =>
              /\ DOMAIN package = DOMAIN _create_error_response(<<>>, request, <<>>)
              /\ svc.guid = "fail" =>
                    /\ package.preparation_tips = "default_guidance"
                    /\ package.interview_structure = "default_guidance"
                    /\ package.candidate_assessment_guide = "default_guidance"
              /\ svc.fw = "fail" => package.evaluation_framework = "default_framework"

C26_Witness ==
    /\ pc = "Done"
    /\ svc.guid = "fail" /\ svc.fw = "fail"
    /\ package.interview_structure = "default_guidance"
    /\ package.evaluation_framework = "default_framework"

\* what _generate_answer_tips_async hands to the answer-tips generator in the
\* current request, and the question set the request's generation produced
AnswerTipsInput == _generate_basic_questions(analysis_result.context)
GeneratedQuestions == generation_result.questions_result.questions

\* C27: in every run that reaches Done, in parallel and in sequential mode,
\* the answer-tips generator was given the question set the QuestionGenerator
\* produced in the same request, and each answer tip of the package is about
\* one of those questions.
C27_TipsAboutGeneratedQuestions ==
    pc = "Done" =>
        /\ AnswerTipsInput = GeneratedQuestions
        /\ \A i \in DOMAIN package.answer_tips :
              \E j \in 1..IterLen(GeneratedQuestions) :
                 /\ ItemsAreDicts(GeneratedQuestions)
                 /\ package.answer_tips[i].question = GeneratedQuestions.items[j].question

\* what holds instead: the generator is given the template text made from
\* the context alone, whatever the QuestionGenerator returned, and no run in
\* sequential mode reaches Done
TipsInputIgnoresGeneration ==
    /\ pc = "Done" =>
          /\ AnswerTipsInput.kind = "str"
          /\ AnswerTipsInput = _generate_basic_questions(Context(request))
          /\ request.enable_parallel_processing
          /\ package.answer_tips = <<>>

\* create_final_output returned a package for the generation result handed over
FormatterSucceeded == call.fn = "create_final_output" /\ ret.ok

GivenQuestions == call.questions_result.questions.items
GivenTips ==
    DictGet(call.answer_tips_result, "answer_tips",
            DictGet(call.answer_tips_result, "answers", PyList(<<>>))).items

\* C28: on the success path create_final_output loses no content: the
\* package's questions are, in order, the questions of the generation result,
\* and its answer_tips has one entry for every generated tip, also when the
\* generation result carries no per-record quality metrics.
C28_FormatterLosesNothing ==
    FormatterSucceeded =>
        /\ Len(ret.val.questions) = Len(GivenQuestions)
        /\ \A i \in DOMAIN GivenQuestions :
              i \in DOMAIN ret.val.questions
                 => ret.val.questions[i].question = GivenQuestions[i].question
        /\ Len(ret.val.answer_tips) = Len(GivenTips)

\* what the formatter does: a question is kept only if it comes with quality
\* metrics, the package never has answer tips, and tips given under the key
\* the formatter reads make it raise
FormatterKeepsOnlyScoredQuestions ==
    call.fn = "create_final_output" =>
        /\ ret.ok =>
              /\ Len(ret.val.questions) =
                    IF "quality_metrics" \in DOMAIN call.questions_result
                    THEN Len(GivenQuestions) ELSE 0
              /\ ret.val.answer_tips = <<>>
        /\ ~ret.ok <=>
              ("answers" \in DOMAIN call.answer_tips_result /\ Len(GivenTips) > 0)

\* C29: whenever a run reaches Done with quality assurance disabled (empty
\* quality payload) or with the quality assurance having failed (fallback
\* payload), the overall_quality_score of the package is exactly 0.70.
C29_DefaultScoreIsSeventy ==
    (pc = "Done" /\ (~request.quality_assurance \/ QARaised)) =>
        /\ ~request.quality_assurance => DOMAIN package.quality_report = {}
        /\ QARaised => package.quality_report = _get_fallback_quality_data
        /\ package.overall_quality_score = 70

\* a Done run without quality assurance, right after a Done run whose quality
\* assurance was enabled
C29_Witness ==
    /\ pc = "Done"
    /\ ~request.quality_assurance
    /\ DOMAIN package.quality_report = {}
    /\ package.overall_quality_score = 70
    /\ prev.valid /\ prev.state = "Done" /\ prev.request.quality_assurance

----------------------------------------------------------------------------
\* C30: in the graph orchestration variant SKILL_MATCHER never starts before
\* both JD_ANALYZER and CV_ANALYZER have stored a result (is_analyzer_done is
\* true exactly when both results are present), and QUESTION_GENERATOR never
\* starts before SKILL_MATCHER has stored a result.
HasResult(n) == n \in DOMAIN graph_state.results

C30_AnalyzersBeforeSkillMatcher ==
    /\ is_analyzer_done(graph_state) <=> (HasResult("JD_ANALYZER") /\ HasResult("CV_ANALYZER"))
    /\ "SKILL_MATCHER" \in StartedNodes(graph_state) \cup graph_state.ready
          => HasResult("JD_ANALYZER") /\ HasResult("CV_ANALYZER")
    /\ "QUESTION_GENERATOR" \in StartedNodes(graph_state) \cup graph_state.ready
          => HasResult("SKILL_MATCHER")

\* the whole interview graph has run, CV_ANALYZER having finished before JD_ANALYZER
C30_Witness ==
    /\ graph = create_interview_graph
    /\ graph_state.status = "completed"
    /\ graph_state.execution_order =
          <<"ORCHESTRATOR", "CV_ANALYZER", "JD_ANALYZER", "SKILL_MATCHER", "QUESTION_GENERATOR">>

\* while only one analyzer has finished, SKILL_MATCHER is neither ready nor started
OneAnalyzerDoneMatcherWaits ==
    (HasResult("JD_ANALYZER") # HasResult("CV_ANALYZER"))
        => "SKILL_MATCHER" \notin StartedNodes(graph_state) \cup graph_state.ready

====
